---------------------------- MODULE Spec2Model ----------------------------
(***************************************************************************)
(* Nonce / salt anti-replay subsystem and token-diff settlement of the     *)
(* intents ledger.                                                         *)
(*                                                                         *)
(*   SpecSalts : the SaltRegistry alone (new, set_new, invalidate)         *)
(*   SpecNonces: one MaybeLegacyNonces alone (commit, cleanup_by_prefix)   *)
(*   SpecCodec : the 32-byte encoding of versioned nonces                  *)
(*   Spec      : the contract: salt manager, clock, intent admission and   *)
(*               nonce garbage collection over the accounts' registries    *)
(*   SpecDiff  : batches of TokenDiff intents settled over the ledger      *)
(*   SpecManager: the salt manager of the contract alone                   *)
(*   SpecLock  : account locks, with batches, transfers, deposits, keys    *)
(*   SpecClosure: the closure quotes of the fee, one settled batch each    *)
(*   SpecMigrate: an AccountV0 converted into the current Account          *)
(*   SpecInspector: the SimulateInspector and its report                   *)
(***************************************************************************)
EXTENDS Integers, Sequences, FiniteSets, TLC

VARIABLES
    salts,      \* Contract.salts : SaltRegistry  [current, previous]
    now,        \* block timestamp seen by Deadline::has_expired
    accounts,   \* account id -> MaybeLegacyNonces [nonces, legacy]
    admitted,   \* history: <<account, nonce>> |-> number of admissions so far
    revoked,    \* history: the salts whose invalidation has returned Ok
    reg,        \* a MaybeLegacyNonces driven on its own (unit level)
    built,      \* history: the legacy Nonces that reg was constructed with
    last,       \* unit level: the latest call, its arguments, the state it
                \* started from (pre) and its result
    balances,   \* holder -> token -> amount held on the ledger
    fees,       \* FeesConfig [fee, fee_collector]
    locked,     \* the accounts whose Lock is locked
    public_keys, \* account -> the public keys registered for it
    inspector,  \* the SimulateInspector of the simulation in progress
    was_current \* history, unit level: the salts that have been the
                \* current salt of the SaltRegistry driven on its own

vars == <<salts, now, accounts, admitted, revoked, reg, built, last,
         balances, fees, locked, public_keys, inspector,
         was_current>>

---------------------------------------------------------------------------
(* Bounds                                                                  *)

\* Number of distinct 4-byte salt values the truncated hash can produce.
NumSalts == 3

\* Number of distinct values Salt::derive yields for one seed over all
\* attempt indices (the hash is not injective in the attempt index).
HashSpread == 2

\* u8::MAX, the last attempt index tried by derive_next_salt.
U8_MAX == 255

\* random_seed of the block that deploys the contract
DeploySeed == 0

Salts == 0 .. (NumSalts - 1)
Seeds == 0 .. (NumSalts - 1)

\* A value that is no salt (absent Ok payload).
NoSalt == 0 - 1

---------------------------------------------------------------------------
(* Result<T>                                                               *)

Ok(v) == [ok |-> TRUE, val |-> v, err |-> "none"]
Err(e) == [ok |-> FALSE, val |-> NoSalt, err |-> e]

---------------------------------------------------------------------------
(* Salt and SaltRegistry (core/src/nonce/salted.rs)                        *)

\* Salt::derive(num): sha256(random_seed ++ [num]) truncated to 4 bytes.
\* The hash is an arbitrary deterministic function of (seed, num) onto the
\* salt space; different attempts and different seeds may collide.
derive(seed, num) == (seed + (num % HashSpread)) % NumSalts

\* IterableMap / LookupMap primitives on a function with a finite domain
EmptyMap == [k \in {} |-> TRUE]
MapInsert(m, k, v) == [x \in (DOMAIN m) \cup {k} |-> IF x = k THEN v ELSE m[x]]
MapRemove(m, k) == [x \in (DOMAIN m) \ {k} |-> m[x]]

\* Faulty variant of new: starts with a second salt already accepted
NewTracksSecondSalt(seed) ==
    [previous |-> MapInsert(EmptyMap, derive(seed, 1), TRUE),
     current |-> derive(seed, 0)]

\* SaltRegistry::new
SaltRegistry_new(seed) == [previous |-> EmptyMap, current |-> derive(seed, 0)]

\* Faulty variant of is_valid: accepts every tracked salt, whatever its flag
IsValidIgnoresFlag(sr, salt) ==
    salt = sr.current \/ salt \in DOMAIN sr.previous

\* SaltRegistry::is_valid
is_valid(sr, salt) ==
    salt = sr.current \/ (salt \in DOMAIN sr.previous /\ sr.previous[salt])

\* SaltRegistry::is_used
is_used(sr, salt) ==
    salt = sr.current \/ salt \in DOMAIN sr.previous

\* Faulty variant of derive_next_salt: takes attempt 0 without looking
DeriveNextUnchecked(sr, seed) == Ok(derive(seed, 0))

\* Faulty variant of derive_next_salt: only the valid salts are skipped, so
\* an invalidated one can be derived again
DeriveNextSkipsValidOnly(sr, seed) ==
    IF \A n \in 0 .. U8_MAX : is_valid(sr, derive(seed, n))
    THEN Err("SaltGenerationFailed")
    ELSE Ok(derive(seed,
                   CHOOSE n \in 0 .. U8_MAX :
                       /\ ~is_valid(sr, derive(seed, n))
                       /\ \A m \in 0 .. (n - 1) : is_valid(sr, derive(seed, m))))

\* SaltRegistry::derive_next_salt:
\* (0..=u8::MAX).map(Salt::derive).find(|s| !self.is_used(*s)), the salt of
\* the first attempt that is not tracked
derive_next_salt(sr, seed) ==
    IF \A n \in 0 .. U8_MAX : is_used(sr, derive(seed, n))
    THEN Err("SaltGenerationFailed")
    ELSE Ok(derive(seed,
                   CHOOSE n \in 0 .. U8_MAX :
                       /\ ~is_used(sr, derive(seed, n))
                       /\ \A m \in 0 .. (n - 1) : is_used(sr, derive(seed, m))))

\* Faulty variant of set_new: the rotation marks every key of previous valid
SetNewRevalidates(sr, seed) ==
    LET d == derive_next_salt(sr, seed)
    IN  IF ~d.ok
        THEN [reg |-> sr, res |-> d]
        ELSE [reg |-> [previous |->
                           [s \in DOMAIN sr.previous \cup {sr.current} |-> TRUE],
                       current |-> d.val],
              res |-> Ok(sr.current)]

\* Faulty variant of set_new: the demoted salt is not kept in previous
SetNewDropsPrevious(sr, seed) ==
    LET d == derive_next_salt(sr, seed)
    IN  IF ~d.ok
        THEN [reg |-> sr, res |-> d]
        ELSE [reg |-> [previous |-> sr.previous, current |-> d.val],
              res |-> Ok(sr.current)]

\* SaltRegistry::set_new : [reg: the registry afterwards, res: Result<Salt>]
set_new(sr, seed) ==
    LET d == derive_next_salt(sr, seed)
    IN  IF ~d.ok
        THEN [reg |-> sr, res |-> d]
        ELSE [reg |-> [previous |-> MapInsert(sr.previous, sr.current, TRUE),
                       current |-> d.val],
              res |-> Ok(sr.current)]

\* Faulty variants of invalidate: one drops the key instead of clearing its
\* flag, one rotates whatever salt is named, one rotates without revoking,
\* one accepts a salt that is not tracked
InvalidateForgets(sr, salt, seed) ==
    LET rot == IF salt = sr.current THEN set_new(sr, seed)
                                    ELSE [reg |-> sr, res |-> Ok(NoSalt)]
    IN  IF ~rot.res.ok
        THEN [reg |-> rot.reg, res |-> rot.res]
        ELSE IF salt \in DOMAIN rot.reg.previous
             THEN [reg |-> [rot.reg EXCEPT
                              !.previous = MapRemove(rot.reg.previous, salt)],
                   res |-> Ok(NoSalt)]
             ELSE [reg |-> rot.reg, res |-> Err("InvalidSalt")]

InvalidateAlwaysRotates(sr, salt, seed) ==
    LET rot == set_new(sr, seed)
    IN  IF ~rot.res.ok
        THEN [reg |-> rot.reg, res |-> rot.res]
        ELSE IF salt \in DOMAIN rot.reg.previous
             THEN [reg |-> [rot.reg EXCEPT !.previous[salt] = FALSE],
                   res |-> Ok(NoSalt)]
             ELSE [reg |-> rot.reg, res |-> Err("InvalidSalt")]

InvalidateKeepsFlag(sr, salt, seed) ==
    LET rot == IF salt = sr.current THEN set_new(sr, seed)
                                    ELSE [reg |-> sr, res |-> Ok(NoSalt)]
    IN  IF ~rot.res.ok
        THEN [reg |-> rot.reg, res |-> rot.res]
        ELSE IF salt \in DOMAIN rot.reg.previous
             THEN [reg |-> IF salt = sr.current THEN rot.reg
                           ELSE [rot.reg EXCEPT !.previous[salt] = FALSE],
                   res |-> Ok(NoSalt)]
             ELSE [reg |-> rot.reg, res |-> Err("InvalidSalt")]

InvalidateAcceptsUnknown(sr, salt, seed) ==
    LET rot == IF salt = sr.current THEN set_new(sr, seed)
                                    ELSE [reg |-> sr, res |-> Ok(NoSalt)]
    IN  IF ~rot.res.ok
        THEN [reg |-> rot.reg, res |-> rot.res]
        ELSE [reg |-> [rot.reg EXCEPT
                         !.previous = MapInsert(rot.reg.previous, salt, FALSE)],
              res |-> Ok(NoSalt)]

\* SaltRegistry::invalidate : [reg, res: Result<()>]
invalidate(sr, salt, seed) ==
    LET rot == IF salt = sr.current THEN set_new(sr, seed)
                                    ELSE [reg |-> sr, res |-> Ok(NoSalt)]
    IN  IF ~rot.res.ok
        THEN [reg |-> rot.reg, res |-> rot.res]
        ELSE IF salt \in DOMAIN rot.reg.previous
             THEN [reg |-> [rot.reg EXCEPT !.previous[salt] = FALSE],
                   res |-> Ok(NoSalt)]
             ELSE [reg |-> rot.reg, res |-> Err("InvalidSalt")]

---------------------------------------------------------------------------
(* Nonce = [u8; 32], laid out as the versioned codec reads it:             *)
(*   magic (4 bytes) ++ tag (1) ++ salt (4) ++ deadline (8) ++ rnd (14)    *)
(*   ++ idx (1).  The first 31 bytes are the NoncePrefix (U248), the last  *)
(* byte selects the bit inside the 256-bit word.  A legacy nonce is any    *)
(* 32 bytes: the same fields, read as opaque bytes.                        *)

\* VersionedNonce::VERSIONED_MAGIC_PREFIX
VERSIONED_MAGIC_PREFIX == "5628f6c6"

\* Some other leading 4 bytes
OtherMagic == "00000000"

\* borsh discriminant of VersionedNonce::V1 (the first variant)
V1_TAG == 0

\* A tag byte that names no variant
UnknownTag == V1_TAG + 1

\* Latest timestamp the clock reaches; deadlines range over 0 .. MaxTime.
MaxTime == 1

Times == 0 .. MaxTime

\* Values of the last byte (bit position inside a word) that are exercised
BitPositions == {0, 1}

MkNonce(magic, tag, salt, deadline, rnd, idx) ==
    [magic |-> magic, tag |-> tag, salt |-> salt, deadline |-> deadline,
     rnd |-> rnd, idx |-> idx]

\* SaltedNonce<ExpirableNonce<[u8; 15]>> wrapped in VersionedNonce::V1
V1(salt, deadline, rnd, idx) ==
    [salt |-> salt, nonce |-> [deadline |-> deadline, nonce |-> <<rnd, idx>>]]

None == [some |-> FALSE]
Some(v) == [some |-> TRUE, val |-> v]

\* Faulty variant of maybe_from: reads a V1 whatever the tag byte is
MaybeFromIgnoresTag(n) ==
    IF n.magic # VERSIONED_MAGIC_PREFIX THEN [some |-> FALSE]
    ELSE [some |-> TRUE,
          val |-> [salt |-> n.salt,
                   nonce |-> [deadline |-> n.deadline,
                              nonce |-> <<n.rnd, n.idx>>]]]

\* VersionedNonce::maybe_from: strip_prefix(magic)?, then borsh-deserialize
\* the tagged variant; an unknown tag fails to deserialize.
maybe_from(n) ==
    IF n.magic # VERSIONED_MAGIC_PREFIX THEN None
    ELSE IF n.tag # V1_TAG THEN None
    ELSE Some(V1(n.salt, n.deadline, n.rnd, n.idx))

\* impl From<VersionedNonce> for Nonce: borsh of (magic, value)
from_versioned(v) ==
    MkNonce(VERSIONED_MAGIC_PREFIX, V1_TAG, v.salt, v.nonce.deadline,
            v.nonce.nonce[1], v.nonce.nonce[2])

\* Faulty variant of prefix_of: the deadline bytes are left out of the prefix
PrefixDropsDeadline(n) ==
    [magic |-> n.magic, tag |-> n.tag, salt |-> n.salt,
     deadline |-> 0, rnd |-> n.rnd]

\* let [prefix @ .., _] = nonce
prefix_of(n) ==
    [magic |-> n.magic, tag |-> n.tag, salt |-> n.salt,
     deadline |-> n.deadline, rnd |-> n.rnd]

\* Salts that signed nonces carry: the salt current at deployment and the
\* one the first rotation under the same seed produces
NonceSalts == {derive(DeploySeed, 0), derive(DeploySeed, 1)}

\* Embedded deadlines: one that passes while the clock runs, one that does not
NonceDeadlines == {0, MaxTime}

\* The 32-byte values used as inputs
VersionedNonces ==
    {from_versioned(V1(s, d, 0, i)) :
        s \in NonceSalts, d \in NonceDeadlines, i \in BitPositions}

LegacyNonces ==
    {MkNonce(OtherMagic, V1_TAG, 0, 0, 0, 0),
     MkNonce(VERSIONED_MAGIC_PREFIX, UnknownTag, 0, 0, 0, 0)}

AllNonces == VersionedNonces \cup LegacyNonces

---------------------------------------------------------------------------
(* The codec on bytes (core/src/nonce/versioned.rs).  A Nonce is a         *)
(* sequence of NONCE_SIZE bytes; a V1 value is [salt: SALT_SIZE bytes,     *)
(* nonce: [deadline: nanoseconds, nonce: RANDOM_SIZE bytes]].              *)

\* size_of::<Nonce>()
NONCE_SIZE == 32

\* Salt([u8; 4])
SALT_SIZE == 4

\* DEADLINE (8 bytes)
DEADLINE_SIZE == 8

\* [u8; 15]
RANDOM_SIZE == 15

\* hex!("5628f6c6")
MAGIC_BYTES == <<86, 40, 246, 198>>

\* borsh of an unsigned integer: w bytes, least significant first
RECURSIVE le_bytes(_, _)
le_bytes(x, w) ==
    IF w = 0 THEN <<>> ELSE <<x % 256>> \o le_bytes(x \div 256, w - 1)

\* borsh reading of an unsigned integer from its bytes
RECURSIVE from_le(_)
from_le(b) == IF b = <<>> THEN 0 ELSE b[1] + 256 * from_le(Tail(b))

\* impl From<VersionedNonce> for Nonce: borsh of (magic, value) written
\* into [0u8; SIZE]: magic ++ tag ++ salt ++ deadline ++ random bytes
encode(v) ==
    MAGIC_BYTES \o <<V1_TAG>> \o v.salt
        \o le_bytes(v.nonce.deadline, DEADLINE_SIZE) \o v.nonce.nonce

\* Faulty variant of decode: reads a V1 whatever the tag byte is
DecodeIgnoresTag(b) ==
    IF SubSeq(b, 1, Len(MAGIC_BYTES)) # MAGIC_BYTES THEN None
    ELSE LET rest == SubSeq(b, Len(MAGIC_BYTES) + 2, Len(b))
         IN  Some([salt |-> SubSeq(rest, 1, SALT_SIZE),
                   nonce |->
                     [deadline |-> from_le(SubSeq(rest, SALT_SIZE + 1,
                                                  SALT_SIZE + DEADLINE_SIZE)),
                      nonce |-> SubSeq(rest, SALT_SIZE + DEADLINE_SIZE + 1,
                                       Len(rest))]])

\* VersionedNonce::maybe_from on bytes: strip_prefix(magic)?, then
\* deserialize_reader: the tag byte selects the variant (an unknown tag is
\* an error, hence None), then salt, deadline and the random bytes
decode(b) ==
    IF SubSeq(b, 1, Len(MAGIC_BYTES)) # MAGIC_BYTES THEN None
    ELSE LET versioned == SubSeq(b, Len(MAGIC_BYTES) + 1, Len(b))
             rest == Tail(versioned)
         IN  IF Head(versioned) # V1_TAG THEN None
             ELSE Some([salt |-> SubSeq(rest, 1, SALT_SIZE),
                        nonce |->
                          [deadline |->
                               from_le(SubSeq(rest, SALT_SIZE + 1,
                                              SALT_SIZE + DEADLINE_SIZE)),
                           nonce |-> SubSeq(rest, SALT_SIZE + DEADLINE_SIZE + 1,
                                            Len(rest))]])

\* The bytes of a nonce given by its fields
to_bytes(n) ==
    (IF n.magic = VERSIONED_MAGIC_PREFIX THEN MAGIC_BYTES
                                         ELSE [i \in 1 .. Len(MAGIC_BYTES) |-> 0])
        \o <<n.tag>> \o le_bytes(n.salt, SALT_SIZE)
        \o le_bytes(n.deadline, DEADLINE_SIZE)
        \o le_bytes(n.rnd, RANDOM_SIZE - 1) \o <<n.idx>>

\* V1 values given to encode
CodecSalts == {<<a, b, 0, 255>> : a \in {0, 1}, b \in {0, 198}}
CodecDeadlines == {0, 1, 255, 256, 65537}
CodecRandoms ==
    {[i \in 1 .. RANDOM_SIZE |-> 0], [i \in 1 .. RANDOM_SIZE |-> i],
     [i \in 1 .. RANDOM_SIZE |-> 255]}
CodecValues ==
    {[salt |-> s, nonce |-> [deadline |-> d, nonce |-> r]] :
        s \in CodecSalts, d \in CodecDeadlines, r \in CodecRandoms}

\* 32-byte values given to decode: encoded values with one of the magic or
\* tag bytes replaced, and encoded values as they are
RawNonces ==
    {[encode(v) EXCEPT ![k] = x] :
        v \in {w \in CodecValues : w.nonce.deadline = 1},
        k \in 1 .. (Len(MAGIC_BYTES) + 1), x \in {0, 1, 86, 198}}

\* Deadline::has_expired at block time t
has_expired(deadline, t) == deadline < t

---------------------------------------------------------------------------
(* BitMap256 and Nonces (core/src/nonce/mod.rs): prefix -> set of set bits *)

\* BitMap256::get_bit
get_bit(bm, n) == prefix_of(n) \in DOMAIN bm /\ n.idx \in bm[prefix_of(n)]

\* Faulty variant of set_bit: every bit of the word is set
SetBitFillsWord(bm, n) ==
    LET p == prefix_of(n)
        word == IF p \in DOMAIN bm THEN bm[p] ELSE {}
    IN  [map |-> MapInsert(bm, p, word \cup BitPositions),
         old |-> n.idx \in word]

\* BitMap256::set_bit: sets the bit, returns its old value
set_bit(bm, n) ==
    LET p == prefix_of(n)
        word == IF p \in DOMAIN bm THEN bm[p] ELSE {}
    IN  [map |-> MapInsert(bm, p, word \cup {n.idx}), old |-> n.idx \in word]

\* Faulty variant of cleanup_by_prefix: tells whether the word exists and
\* leaves it in place
CleanupReportsOnly(bm, p) == [map |-> bm, removed |-> p \in DOMAIN bm]

\* BitMap256::cleanup_by_prefix: removes the word, tells whether it existed
bitmap_cleanup_by_prefix(bm, p) ==
    [map |-> MapRemove(bm, p), removed |-> p \in DOMAIN bm]

\* Nonces::is_used
Nonces_is_used(bm, n) == get_bit(bm, n)

\* Faulty variant of commit: sets the bit and never reports a replay
CommitOverwrites(bm, n) ==
    [reg |-> set_bit(bm, n).map, res |-> Ok(NoSalt)]

\* Nonces::commit : [reg, res]
Nonces_commit(bm, n) ==
    LET r == set_bit(bm, n)
    IN  IF r.old THEN [reg |-> r.map, res |-> Err("NonceUsed")]
                 ELSE [reg |-> r.map, res |-> Ok(NoSalt)]

\* Nonces::cleanup_by_prefix
Nonces_cleanup_by_prefix(bm, p) == bitmap_cleanup_by_prefix(bm, p)

---------------------------------------------------------------------------
(* MaybeLegacyNonces (defuse/src/contract/accounts/account/nonces.rs)      *)

\* MaybeLegacyNonces::new
MaybeLegacyNonces_new == [nonces |-> EmptyMap, legacy |-> None]

\* MaybeLegacyNonces::with_legacy
with_legacy(legacy) == [nonces |-> EmptyMap, legacy |-> Some(legacy)]

\* self.legacy.as_ref().is_some_and(|legacy| legacy.is_used(nonce))
legacy_is_used(ml, n) == ml.legacy.some /\ Nonces_is_used(ml.legacy.val, n)

\* Faulty variant of commit: does not look at the legacy registry
CommitSkipsLegacy(ml, n) ==
    LET r == Nonces_commit(ml.nonces, n)
    IN  [reg |-> [ml EXCEPT !.nonces = r.reg], res |-> r.res]

\* MaybeLegacyNonces::commit
MaybeLegacyNonces_commit(ml, n) ==
    IF legacy_is_used(ml, n)
    THEN [reg |-> ml, res |-> Err("NonceUsed")]
    ELSE LET r == Nonces_commit(ml.nonces, n)
         IN  [reg |-> [ml EXCEPT !.nonces = r.reg], res |-> r.res]

\* Faulty variant of is_used: looks at the new registry only
IsUsedIgnoresLegacy(ml, n) == Nonces_is_used(ml.nonces, n)

\* MaybeLegacyNonces::is_used
MaybeLegacyNonces_is_used(ml, n) ==
    Nonces_is_used(ml.nonces, n) \/ legacy_is_used(ml, n)

\* Faulty variant of cleanup_by_prefix: clears the legacy registry as well
CleanupReachesLegacy(ml, p) ==
    LET r == Nonces_cleanup_by_prefix(ml.nonces, p)
        l == IF ml.legacy.some
             THEN Some(Nonces_cleanup_by_prefix(ml.legacy.val, p).map)
             ELSE None
    IN  [reg |-> [nonces |-> r.map, legacy |-> l], removed |-> r.removed]

\* MaybeLegacyNonces::cleanup_by_prefix
MaybeLegacyNonces_cleanup_by_prefix(ml, p) ==
    LET r == Nonces_cleanup_by_prefix(ml.nonces, p)
    IN  [reg |-> [ml EXCEPT !.nonces = r.map], removed |-> r.removed]

---------------------------------------------------------------------------
(* The contract: salt manager, intent admission, garbage collector         *)

NoAccounts == [a \in {} |-> TRUE]

AccountIds == {"alice", "bob"}

\* No account has registered a public key
NoKeys == [a \in AccountIds |-> {}]

\* Accounts that sign intents; the others never come to exist
Signers == {"alice"}


\* Largest number of successful admissions explored in one behaviour
MaxAdmitted == 2

\* Contract::is_valid_salt
is_valid_salt(sr, salt) == is_valid(sr, salt)

\* Admission checks on a payload (nonce n, deadline D) at block time t:
\* a versioned nonce needs nd >= D, nd not expired, and a valid salt;
\* a legacy nonce passes.
verify_intent_nonce(sr, t, n, D) ==
    LET v == maybe_from(n)
    IN  IF ~v.some THEN Ok(NoSalt)
        ELSE IF v.val.nonce.deadline < D THEN Err("InvalidNonceDeadline")
        ELSE IF has_expired(v.val.nonce.deadline, t) THEN Err("DeadlineExpired")
        ELSE IF ~is_valid_salt(sr, v.val.salt) THEN Err("InvalidSalt")
        ELSE Ok(NoSalt)

\* is_nonce_used(account, nonce): false for an account that does not exist
is_nonce_used(accts, a, n) ==
    a \in DOMAIN accts /\ MaybeLegacyNonces_is_used(accts[a], n)

\* commit_nonce(account, nonce): the account is created on first use
commit_nonce(accts, a, n) ==
    LET acc == IF a \in DOMAIN accts THEN accts[a] ELSE MaybeLegacyNonces_new
        r == MaybeLegacyNonces_commit(acc, n)
    IN  [accounts |-> MapInsert(accts, a, r.reg), res |-> r.res]

\* Admission of one signed payload {signer a, nonce n, deadline D}: replay
\* check first, then the versioned checks, finally the commit.  A failure
\* aborts the call, so nothing is persisted.
admit(accts, sr, t, a, n, D) ==
    IF is_nonce_used(accts, a, n)
    THEN [accounts |-> accts, res |-> Err("NonceUsed")]
    ELSE LET v == verify_intent_nonce(sr, t, n, D)
         IN  IF ~v.ok
             THEN [accounts |-> accts, res |-> v]
             ELSE LET c == commit_nonce(accts, a, n)
                  IN  IF c.res.ok THEN c
                      ELSE [accounts |-> accts, res |-> c.res]

\* Faulty variant of is_nonce_cleanable: a nonce that is not versioned is
\* cleanable as well
CleanableAcceptsLegacy(sr, t, n) ==
    LET v == maybe_from(n)
    IN  IF ~v.some THEN TRUE
        ELSE has_expired(v.val.nonce.deadline, t) \/ ~is_valid_salt(sr, v.val.salt)

\* Faulty variant of is_nonce_cleanable: every versioned nonce is cleanable
CleanableIgnoresValidity(sr, t, n) ==
    maybe_from(n).some

\* Contract::is_nonce_cleanable

is_nonce_cleanable(sr, t, n) ==
    LET v == maybe_from(n)
    IN  IF ~v.some THEN FALSE
        ELSE has_expired(v.val.nonce.deadline, t) \/ ~is_valid_salt(sr, v.val.salt)

\* State::cleanup_nonce_by_prefix: fails for an account that does not exist
cleanup_nonce_by_prefix(accts, a, p) ==
    IF a \notin DOMAIN accts
    THEN [accounts |-> accts, res |-> Err("AccountNotFound")]
    ELSE LET r == MaybeLegacyNonces_cleanup_by_prefix(accts[a], p)
         IN  [accounts |-> [accts EXCEPT ![a] = r.reg], res |-> Ok(NoSalt)]

\* GarbageCollector::cleanup_nonces over the listed <<account, nonce>> pairs
RECURSIVE cleanup_nonces(_, _, _, _)
cleanup_nonces(accts, sr, t, list) ==
    IF list = <<>> THEN accts
    ELSE LET a == Head(list)[1]
             n == Head(list)[2]
             step == IF ~is_nonce_cleanable(sr, t, n) THEN accts
                     ELSE cleanup_nonce_by_prefix(accts, a, prefix_of(n)).accounts
         IN  cleanup_nonces(step, sr, t, Tail(list))

\* Faulty variant of update_current_salt: returns the salt read before the
\* rotation
UpdateReturnsPrevious(sr, seed) ==
    LET r == set_new(sr, seed)
    IN  IF ~r.res.ok
        THEN [reg |-> sr, inner |-> r.res, res |-> Err("panic")]
        ELSE [reg |-> r.reg, inner |-> r.res, res |-> Ok(sr.current)]

\* SaltManager::update_current_salt: set_new().unwrap_or_panic(), then
\* returns current.  [reg, inner: set_new's result, res: the call's result]
update_current_salt(sr, seed) ==
    LET r == set_new(sr, seed)
    IN  IF ~r.res.ok
        THEN [reg |-> sr, inner |-> r.res, res |-> Err("panic")]
        ELSE [reg |-> r.reg, inner |-> r.res, res |-> Ok(r.reg.current)]

\* Faulty variant of invalidate_each: the first error ends the call
RECURSIVE InvalidateStopsAtError(_, _, _)
InvalidateStopsAtError(sr, list, seed) ==
    IF list = <<>> THEN [reg |-> sr, invalidated |-> {}]
    ELSE LET r == invalidate(sr, Head(list), seed)
         IN  IF ~r.res.ok THEN [reg |-> sr, invalidated |-> {}]
             ELSE LET rest == InvalidateStopsAtError(r.reg, Tail(list), seed)
                  IN  [reg |-> rest.reg,
                       invalidated |-> rest.invalidated \cup {Head(list)}]

\* SaltManager::invalidate_salts: invalidates each listed salt in order,
\* omitting errors.  [reg, invalidated: those that returned Ok, res]
RECURSIVE invalidate_each(_, _, _)
invalidate_each(sr, list, seed) ==
    IF list = <<>> THEN [reg |-> sr, invalidated |-> {}]
    ELSE LET r == invalidate(sr, Head(list), seed)
             rest == invalidate_each(r.reg, Tail(list), seed)
         IN  [reg |-> rest.reg,
              invalidated |-> rest.invalidated \cup
                              (IF r.res.ok THEN {Head(list)} ELSE {})]

\* Faulty variant of invalidate_salts: a salt that cannot be generated
\* fails the call
InvalidateSaltsPropagates(sr, list, seed) ==
    IF \E i \in DOMAIN list :
           /\ list[i] = sr.current
           /\ \A n \in 0 .. U8_MAX : is_used(sr, derive(seed, n))
    THEN [reg |-> sr, invalidated |-> {}, res |-> Err("SaltGenerationFailed")]
    ELSE [reg |-> invalidate_each(sr, list, seed).reg,
          invalidated |-> invalidate_each(sr, list, seed).invalidated,
          res |-> Ok(invalidate_each(sr, list, seed).reg.current)]

invalidate_salts(sr, list, seed) ==
    LET r == invalidate_each(sr, list, seed)
    IN  [reg |-> r.reg, invalidated |-> r.invalidated, res |-> Ok(r.reg.current)]


---------------------------------------------------------------------------
(* Token-diff settlement: Collecting -> Verifying -> Committed | Rejected  *)

Tokens == {"ft1", "ft2"}

\* The account the protocol fee is credited to; it signs nothing
FeeCollector == "collector"

Holders == AccountIds \cup {FeeCollector}

\* Pips: a fee rate in parts per million
ZERO == 0
ONE_BIP == 100
ONE_PERCENT == 10000
PIPS_MAX == 1000000

FeeRates == {ZERO, ONE_PERCENT}

FeesConfig_default == [fee |-> ZERO, fee_collector |-> FeeCollector]

NoBalances == [h \in Holders |-> [t \in Tokens |-> 0]]

\* TokenDeltas: token -> signed amount; a zero amount is never stored
NoDeltas == [t \in {} |-> 0]

delta_of(d, t) == IF t \in DOMAIN d THEN d[t] ELSE 0

\* TokenDeltas::add_delta
add_delta(d, t, x) ==
    LET sum == delta_of(d, t) + x
    IN  IF sum = 0 THEN MapRemove(d, t) ELSE MapInsert(d, t, sum)

\* Pips::fee_ceil: the fee on an amount, rounded up
fee_ceil(amount, fee) == (amount * fee + (PIPS_MAX - 1)) \div PIPS_MAX

\* The fee taken on one delta: only what a signer gives away is charged
delta_fee(x, fee) == IF x < 0 THEN fee_ceil(0 - x, fee) ELSE 0

\* Faulty variant of closure_supply_delta: the fee is added to the residual
\* instead of being inverted
ClosureSupplyAddsFee(t, r, fee) ==
    IF r <= 0 THEN 0 - r ELSE 0 - (r + fee_ceil(r, fee))

\* TokenDiff::closure_supply_delta: the delta of an intent that closes the
\* residual r of token t.  An excess of supply (r < 0) is taken as it is; an
\* excess of demand (r > 0) needs a supply g whose part left after the fee,
\* g - fee_ceil(g, fee), is r: the smallest such g is r / (1 - fee) rounded up
closure_supply_delta(t, r, fee) ==
    IF r <= 0 THEN 0 - r
    ELSE 0 - ((r * PIPS_MAX + (PIPS_MAX - fee) - 1) \div (PIPS_MAX - fee))

\* Faulty variant of closure_delta: the fee is not taken off
ClosureDeltaIgnoresFee(t, delta, fee) == 0 - delta

\* TokenDiff::closure_delta: the delta of an intent that closes the intent
\* delta of token t, what the fee leaves of it being the residual to close
closure_delta(t, delta, fee) ==
    closure_supply_delta(t, delta + delta_fee(delta, fee), fee)

\* The shadow state a batch is staged in
Shadow(accts, bals) ==
    [accounts |-> accts, balances |-> bals,
     unmatched |-> NoDeltas, collected |-> NoDeltas]

\* The tokens of diff d, applied to the shadow state for one signer
RECURSIVE stage_deltas(_, _, _, _, _)
stage_deltas(st, a, d, fee, todo) ==
    IF todo = {} THEN st
    ELSE LET t == CHOOSE x \in todo : TRUE
             f == delta_fee(d[t], fee)
             next ==
                 [st EXCEPT
                    !.balances[a][t] = @ + d[t],
                    !.unmatched = add_delta(@, t, d[t] + f),
                    !.collected = add_delta(@, t, f)]
         IN  stage_deltas(next, a, d, fee, todo \ {t})

\* Faulty variant of stage_admitted: a debit is not checked against the
\* staged balance
StageSkipsBalanceCheck(st, fee, it, adm) ==
    IF ~adm.res.ok THEN [st |-> st, res |-> Err(adm.res.err)]
    ELSE [st |-> stage_deltas([st EXCEPT !.accounts = adm.accounts],
                              it.signer, it.diff, fee, DOMAIN it.diff),
          res |-> Ok(NoSalt)]

\* Collecting, one intent whose nonce admission gave adm: every delta
\* against the signer's staged balance
stage_admitted(st, fee, it, adm) ==
    IF ~adm.res.ok THEN [st |-> st, res |-> Err(adm.res.err)]
    ELSE IF \E k \in DOMAIN it.diff :
                st.balances[it.signer][k] + it.diff[k] < 0
    THEN [st |-> st, res |-> Err("InsufficientBalance")]
    ELSE [st |-> stage_deltas([st EXCEPT !.accounts = adm.accounts],
                              it.signer, it.diff, fee, DOMAIN it.diff),
          res |-> Ok(NoSalt)]

\* Collecting, one intent {signer, nonce, deadline, diff}: the admission of
\* its nonce, then its deltas
stage_intent(st, sr, t, fee, it) ==
    stage_admitted(st, fee, it,
                   admit(st.accounts, sr, t, it.signer, it.nonce, it.deadline))

\* Collecting, the whole batch in order; stops at the first intent that fails
RECURSIVE stage_batch(_, _, _, _, _)
RECURSIVE stage_rest(_, _, _, _, _)
stage_rest(r, sr, t, fee, rest) ==
    IF ~r.res.ok THEN r ELSE stage_batch(r.st, sr, t, fee, rest)

stage_batch(st, sr, t, fee, batch) ==
    IF batch = <<>> THEN [st |-> st, res |-> Ok(NoSalt)]
    ELSE stage_rest(stage_intent(st, sr, t, fee, Head(batch)),
                    sr, t, fee, Tail(batch))

\* The output of a simulation whose Collecting ended as r: an intent that
\* failed fails the simulation; otherwise the output carries the residual
simulation_output(sr, cfg, r) ==
    IF ~r.res.ok THEN [res |-> r.res]
    ELSE [res |-> Ok(NoSalt),
          output |->
              [invariant_violated |->
                   IF r.st.unmatched = NoDeltas THEN None
                   ELSE Some([unmatched_deltas |-> r.st.unmatched]),
               state |-> [fee |-> cfg.fee, current_salt |-> sr.current]]]

\* simulate_intents: the pipeline run read-only
simulate_intents(accts, bals, sr, t, cfg, batch) ==
    simulation_output(sr, cfg,
        stage_batch(Shadow(accts, bals), sr, t, cfg.fee, batch))

\* Faulty variant of simulated_state: what the simulation staged is kept
SimulatedStateKeepsStaged(accts, bals, r) ==
    [accounts |-> r.st.accounts, balances |-> r.st.balances]

\* The persisted state after simulate_intents(&self, ..) whose Collecting
\* ended as r: the receiver is not mutable, so what was staged is dropped
simulated_state(accts, bals, r) ==
    [accounts |-> accts, balances |-> bals]

\* Faulty variant of into_result: the residual is dropped
IntoResultAlwaysOk(out) == Ok(NoSalt)

\* Faulty variant of into_result: an empty residual is an error as well
IntoResultAlwaysErr(out) ==
    [ok |-> FALSE, err |-> "InvariantViolated",
     unmatched_deltas |->
         IF out.invariant_violated.some
         THEN out.invariant_violated.val.unmatched_deltas ELSE NoDeltas]

\* SimulationOutput::into_result
into_result(out) ==
    IF out.invariant_violated.some
    THEN [ok |-> FALSE, err |-> "InvariantViolated",
          unmatched_deltas |-> out.invariant_violated.val.unmatched_deltas]
    ELSE Ok(NoSalt)

\* Faulty variant of credit_fees: the collector is credited twice the fees
CreditFeesTwice(bals, cfg, collected) ==
    [bals EXCEPT ![cfg.fee_collector] =
        [k \in Tokens |-> @[k] + 2 * delta_of(collected, k)]]

\* Committed: the staged balances persist and the fees are credited
credit_fees(bals, cfg, collected) ==
    [bals EXCEPT ![cfg.fee_collector] =
        [k \in Tokens |-> @[k] + delta_of(collected, k)]]

\* The outcome of a batch that persists nothing
not_committed(accts, bals, res, unmatched) ==
    [accounts |-> accts, balances |-> bals, res |-> res,
     report |-> [committed |-> FALSE, unmatched_deltas |-> unmatched,
                 fees_collected |-> NoDeltas]]

\* Faulty variant of verify_batch: a rejected batch keeps the nonces it staged
VerifyKeepsStagedNonces(accts, bals, cfg, r) ==
    IF ~r.res.ok THEN not_committed(accts, bals, r.res, NoDeltas)
    ELSE IF r.st.unmatched # NoDeltas
    THEN not_committed(r.st.accounts, bals, Err("InvariantViolated"),
                       r.st.unmatched)
    ELSE [accounts |-> r.st.accounts,
          balances |-> credit_fees(r.st.balances, cfg, r.st.collected),
          res |-> Ok(NoSalt),
          report |-> [committed |-> TRUE, unmatched_deltas |-> NoDeltas,
                      fees_collected |-> r.st.collected]]

\* Verifying, for a batch whose Collecting ended as r, then Committed or
\* Rejected.  [accounts, balances: the persisted state after the call,
\* res, report: the SettlementReport]
verify_batch(accts, bals, cfg, r) ==
    IF ~r.res.ok THEN not_committed(accts, bals, r.res, NoDeltas)
    ELSE IF r.st.unmatched # NoDeltas
    THEN not_committed(accts, bals, Err("InvariantViolated"), r.st.unmatched)
    ELSE [accounts |-> r.st.accounts,
          balances |-> credit_fees(r.st.balances, cfg, r.st.collected),
          res |-> Ok(NoSalt),
          report |-> [committed |-> TRUE, unmatched_deltas |-> NoDeltas,
                      fees_collected |-> r.st.collected]]

\* apply_token_diff_batch: Collecting, Verifying, then Committed or Rejected
apply_token_diff_batch(accts, bals, sr, t, cfg, batch) ==
    verify_batch(accts, bals, cfg,
        stage_batch(Shadow(accts, bals), sr, t, cfg.fee, batch))

---------------------------------------------------------------------------
(* SimulateInspector (defuse/src/contract/intents/simulate.rs)             *)

\* Deadline::MAX: later than every deadline a payload carries
Deadline_MAX == MaxTime + 1

\* DefuseEvent::to_json
to_json(event) == [json |-> event]

\* The line near-sdk logs for an event: "EVENT_JSON:{elem}"
event_log(elem) == <<"EVENT_JSON:", elem>>

\* DefuseEvent::IntentsExecuted over the intents executed
IntentsExecuted(intents) == [event |-> "intents_executed", data |-> intents]

\* IntentEvent::new(AccountEvent::new(signer_id, NonceEvent::new(nonce)),
\* intent_hash)
IntentEvent(signer_id, intent_hash, nonce) ==
    [intent_hash |-> intent_hash, account_id |-> signer_id, nonce |-> nonce]

\* SimulateInspector::default
SimulateInspector_default ==
    [intents_executed |-> <<>>, recorded_events |-> <<>>,
     min_deadline |-> Deadline_MAX]

\* Faulty variant of on_deadline: the latest deadline seen is kept
OnDeadlineKeepsLatest(insp, deadline) ==
    [insp EXCEPT !.min_deadline = deadline]

\* Inspector::on_deadline
on_deadline(insp, deadline) ==
    [insp EXCEPT !.min_deadline = IF deadline < @ THEN deadline ELSE @]

\* Inspector::on_event
on_event(insp, event) ==
    [insp EXCEPT !.recorded_events = Append(@, to_json(event))]

\* Inspector::on_intent_executed
on_intent_executed(insp, signer_id, intent_hash, nonce) ==
    [insp EXCEPT !.intents_executed =
         Append(@, IntentEvent(signer_id, intent_hash, nonce))]

\* Faulty variant of into_report: the IntentsExecuted event comes first
IntoReportExecutedFirst(insp) ==
    [logs |->
         <<event_log(to_json(IntentsExecuted(insp.intents_executed)))>>
             \o [i \in DOMAIN insp.recorded_events |->
                     event_log(insp.recorded_events[i])],
     intents_executed |-> insp.intents_executed,
     min_deadline |-> insp.min_deadline]

\* SimulateInspector::into_report
into_report(insp) ==
    [logs |->
         [i \in DOMAIN insp.recorded_events |->
              event_log(insp.recorded_events[i])]
             \o <<event_log(to_json(IntentsExecuted(insp.intents_executed)))>>,
     intents_executed |-> insp.intents_executed,
     min_deadline |-> insp.min_deadline]

---------------------------------------------------------------------------
(* Account locks                                                           *)

\* Lock::lock on the account of a: Some when the lock was open
Lock_lock(lk, a) == [locked |-> lk \cup {a}, some |-> a \notin lk]

\* Lock::unlock on the account of a: Some when the lock was closed
Lock_unlock(lk, a) == [locked |-> lk \ {a}, some |-> a \in lk]

\* Accounts::get_or_create
get_or_create(accts, a) ==
    IF a \in DOMAIN accts THEN accts
    ELSE MapInsert(accts, a, MaybeLegacyNonces_new)

\* StateView::is_account_locked: an account that does not exist is not locked
is_account_locked(accts, lk, a) == a \in DOMAIN accts /\ a \in lk

\* Faulty variant of force_lock_account: the call always reports a change
ForceLockReportsChange(accts, lk, a) ==
    [accounts |-> get_or_create(accts, a),
     locked |-> Lock_lock(lk, a).locked, res |-> TRUE]

\* Contract::force_lock_account
force_lock_account(accts, lk, a) ==
    LET l == Lock_lock(lk, a)
    IN  [accounts |-> get_or_create(accts, a), locked |-> l.locked,
         res |-> l.some]

\* Contract::force_unlock_account
force_unlock_account(accts, lk, a) ==
    IF a \notin DOMAIN accts
    THEN [accounts |-> accts, locked |-> lk, res |-> FALSE]
    ELSE LET l == Lock_unlock(lk, a)
         IN  [accounts |-> accts, locked |-> l.locked, res |-> l.some]

\* The position of the first payload of the batch whose signer is locked,
\* 0 when there is none
first_locked(lk, batch) ==
    IF \A i \in DOMAIN batch : batch[i].signer \notin lk THEN 0
    ELSE CHOOSE i \in DOMAIN batch :
             /\ batch[i].signer \in lk
             /\ \A j \in 1 .. (i - 1) : batch[j].signer \notin lk

\* The outcome of a batch whose payload at position i >= 1 is signed by a
\* locked account, the payloads before it having been staged as r
locked_out(accts, bals, r) ==
    not_committed(accts, bals,
                  IF r.res.ok THEN Err("AccountLocked") ELSE r.res, NoDeltas)

\* Faulty variant of execute_intents: the lock of the signer is not looked at
ExecuteIgnoresLock(accts, bals, lk, sr, t, cfg, batch) ==
    apply_token_diff_batch(accts, bals, sr, t, cfg, batch)

\* execute_intents with account locks: the account of a signer is fetched
\* for writing before its nonce is committed, which fails with AccountLocked
execute_intents(accts, bals, lk, sr, t, cfg, batch) ==
    IF first_locked(lk, batch) = 0
    THEN apply_token_diff_batch(accts, bals, sr, t, cfg, batch)
    ELSE locked_out(accts, bals,
             stage_batch(Shadow(accts, bals), sr, t, cfg.fee,
                         SubSeq(batch, 1, first_locked(lk, batch) - 1)))

\* A deposit to account a: the lock is not looked at
deposit(bals, a, t, amount) == [bals EXCEPT ![a][t] = @ + amount]

\* mt_transfer from sender to receiver: only the sender's lock is looked at
mt_transfer(bals, lk, sender, receiver, t, amount) ==
    IF sender \in lk
    THEN [balances |-> bals, res |-> Err("AccountLocked")]
    ELSE IF bals[sender][t] < amount
    THEN [balances |-> bals, res |-> Err("InsufficientBalance")]
    ELSE [balances |-> [bals EXCEPT ![sender][t] = @ - amount,
                                    ![receiver][t] = @ + amount],
          res |-> Ok(NoSalt)]

\* The public keys an account can register
PublicKeys == {"pk1"}

\* add_public_key called by account a
add_public_key(keys, lk, a, pk) ==
    IF a \in lk THEN [keys |-> keys, res |-> Err("AccountLocked")]
    ELSE IF pk \in keys[a] THEN [keys |-> keys, res |-> Err("PublicKeyExists")]
    ELSE [keys |-> [keys EXCEPT ![a] = @ \cup {pk}], res |-> Ok(NoSalt)]

\* remove_public_key called by account a
remove_public_key(keys, lk, a, pk) ==
    IF a \in lk THEN [keys |-> keys, res |-> Err("AccountLocked")]
    ELSE IF pk \notin keys[a]
    THEN [keys |-> keys, res |-> Err("PublicKeyNotExist")]
    ELSE [keys |-> [keys EXCEPT ![a] = @ \ {pk}], res |-> Ok(NoSalt)]

---------------------------------------------------------------------------
(* The contract, continued                                                 *)

\* The lists of salts passed to invalidate_salts
SaltLists == {<<>>} \cup {<<s>> : s \in Salts}

Init ==
    /\ salts = SaltRegistry_new(DeploySeed)
    /\ now = 0
    /\ accounts = NoAccounts
    /\ admitted = NoAccounts
    /\ revoked = {}
    /\ reg = MaybeLegacyNonces_new
    /\ built = None
    /\ balances = NoBalances
    /\ fees = FeesConfig_default
    /\ locked = {}
    /\ public_keys = NoKeys
    /\ inspector = SimulateInspector_default
    /\ was_current = {SaltRegistry_new(DeploySeed).current}
    /\ last = [op |-> "deploy"]

ExecuteIntents(a, n, D) ==
    /\ Cardinality(DOMAIN admitted \cup {<<a, n>>}) <= MaxAdmitted
    /\ LET r == admit(accounts, salts, now, a, n, D)
           k == IF <<a, n>> \in DOMAIN admitted THEN admitted[<<a, n>>] ELSE 0
       IN  /\ accounts' = r.accounts
           /\ admitted' = IF r.res.ok THEN MapInsert(admitted, <<a, n>>, k + 1)
                                       ELSE admitted
    /\ UNCHANGED <<salts, now, revoked, reg, built, last, balances, fees, locked,
                   public_keys, inspector, was_current>>

CleanupNonces(list) ==
    /\ accounts' = cleanup_nonces(accounts, salts, now, list)
    /\ UNCHANGED <<salts, now, admitted, revoked, reg, built, last, balances, fees,
                   locked, public_keys, inspector, was_current>>

UpdateCurrentSalt(seed) ==
    LET r == update_current_salt(salts, seed)
    IN  /\ salts' = r.reg
        /\ UNCHANGED <<now, accounts, admitted, revoked, reg, built, last, balances, fees,
                   locked, public_keys, inspector, was_current>>

InvalidateSalts(list, seed) ==
    LET r == invalidate_salts(salts, list, seed)
    IN  /\ salts' = r.reg
        /\ revoked' = revoked \cup r.invalidated
        /\ UNCHANGED <<now, accounts, admitted, reg, built, last, balances, fees,
                   locked, public_keys, inspector, was_current>>

Tick ==
    /\ now < MaxTime
    /\ now' = now + 1
    /\ UNCHANGED <<salts, accounts, admitted, revoked, reg, built, last, balances, fees,
                   locked, public_keys, inspector, was_current>>

Next ==
    \/ \E a \in Signers, n \in AllNonces, D \in Times : ExecuteIntents(a, n, D)
    \/ \E a \in AccountIds, n \in AllNonces : CleanupNonces(<<<<a, n>>>>)
    \/ \E seed \in Seeds : UpdateCurrentSalt(seed)
    \/ \E list \in SaltLists, seed \in Seeds : InvalidateSalts(list, seed)
    \/ Tick

Spec == Init /\ [][Next]_vars

---------------------------------------------------------------------------
(* SpecSalts: a SaltRegistry driven directly, as the unit tests drive it.  *)
(* last.pre is the registry as it was when the call started.               *)

InitSalts ==
    /\ \E seed \in Seeds :
          /\ salts = SaltRegistry_new(seed)
          /\ last = [op |-> "new", seed |-> seed, salt |-> NoSalt,
                     pre |-> SaltRegistry_new(seed), res |-> Ok(NoSalt)]
          /\ was_current = {SaltRegistry_new(seed).current}
    /\ now = 0
    /\ accounts = NoAccounts
    /\ admitted = NoAccounts
    /\ revoked = {}
    /\ reg = MaybeLegacyNonces_new
    /\ built = None
    /\ balances = NoBalances
    /\ fees = FeesConfig_default
    /\ locked = {}
    /\ public_keys = NoKeys
    /\ inspector = SimulateInspector_default

SetNew(seed) ==
    LET r == set_new(salts, seed)
    IN  /\ salts' = r.reg
        /\ last' = [op |-> "set_new", seed |-> seed, salt |-> NoSalt,
                    pre |-> salts, res |-> r.res]
        /\ was_current' = was_current \cup {r.reg.current}
        /\ UNCHANGED <<now, accounts, admitted, revoked, reg, built, balances,
                       fees, locked, public_keys, inspector>>

Invalidate(salt, seed) ==
    LET r == invalidate(salts, salt, seed)
    IN  /\ salts' = r.reg
        /\ last' = [op |-> "invalidate", seed |-> seed, salt |-> salt,
                    pre |-> salts, res |-> r.res]
        /\ revoked' = IF r.res.ok THEN revoked \cup {salt} ELSE revoked
        /\ was_current' = was_current \cup {r.reg.current}
        /\ UNCHANGED <<now, accounts, admitted, reg, built, balances, fees,
                       locked, public_keys, inspector>>

NextSalts ==
    \/ \E seed \in Seeds : SetNew(seed)
    \/ \E salt \in Salts, seed \in Seeds : Invalidate(salt, seed)

SpecSalts == InitSalts /\ [][NextSalts]_vars

---------------------------------------------------------------------------
(* SpecManager: the salt manager of the contract driven on its own, with   *)
(* lists of up to two salts.  last.pre is the registry as it was when the  *)
(* call started.                                                           *)

\* The lists of salts passed to invalidate_salts at this level
ManagerLists ==
    {<<>>} \cup {<<s>> : s \in Salts} \cup {<<s, u>> : s \in Salts, u \in Salts}

InitManager ==
    /\ salts = SaltRegistry_new(DeploySeed)
    /\ last = [op |-> "deploy", seed |-> DeploySeed, list |-> <<>>,
               pre |-> SaltRegistry_new(DeploySeed), res |-> Ok(NoSalt),
               invalidated |-> {}]
    /\ now = 0
    /\ accounts = NoAccounts
    /\ admitted = NoAccounts
    /\ revoked = {}
    /\ reg = MaybeLegacyNonces_new
    /\ built = None
    /\ balances = NoBalances
    /\ fees = FeesConfig_default
    /\ locked = {}
    /\ public_keys = NoKeys
    /\ inspector = SimulateInspector_default
    /\ was_current = {SaltRegistry_new(DeploySeed).current}

\* update_current_salt in a block whose random seed is `seed`
ManagerUpdate(seed) ==
    LET r == update_current_salt(salts, seed)
    IN  /\ salts' = r.reg
        /\ last' = [op |-> "update_current_salt", seed |-> seed,
                    list |-> <<>>, pre |-> salts, res |-> r.res,
                    invalidated |-> {}]
        /\ UNCHANGED <<now, accounts, admitted, revoked, reg, built,
                       balances, fees, locked, public_keys, inspector,
                   was_current>>

\* invalidate_salts(list) in a block whose random seed is `seed`
ManagerInvalidate(list, seed) ==
    LET r == invalidate_salts(salts, list, seed)
    IN  /\ salts' = r.reg
        /\ revoked' = revoked \cup r.invalidated
        /\ last' = [op |-> "invalidate_salts", seed |-> seed, list |-> list,
                    pre |-> salts, res |-> r.res,
                    invalidated |-> r.invalidated]
        /\ UNCHANGED <<now, accounts, admitted, reg, built, balances, fees, locked,
                   public_keys, inspector, was_current>>

NextManager ==
    \/ \E seed \in Seeds : ManagerUpdate(seed)
    \/ \E list \in ManagerLists, seed \in Seeds : ManagerInvalidate(list, seed)

SpecManager == InitManager /\ [][NextManager]_vars

---------------------------------------------------------------------------
(* Unit level: one MaybeLegacyNonces driven directly, either fresh or      *)
(* built by with_legacy from the bitmap of an account that was migrated    *)

\* The nonces committed at unit level: the legacy ones and the versioned
\* ones of one salt (two prefixes, two bits in each word)
UnitNonces ==
    {n \in AllNonces :
        ~maybe_from(n).some \/ maybe_from(n).val.salt = derive(DeploySeed, 0)}

\* The nonces a migrated account may have used before its migration
MigratedNonces ==
    LegacyNonces \cup {from_versioned(V1(derive(DeploySeed, 0), 0, 0, 0))}

RECURSIVE commit_all(_, _)
commit_all(bm, S) ==
    IF S = {} THEN bm
    ELSE LET n == CHOOSE x \in S : TRUE
         IN  commit_all(Nonces_commit(bm, n).reg, S \ {n})

LegacyMaps == {commit_all(EmptyMap, S) : S \in SUBSET MigratedNonces}

InitNonces ==
    /\ \/ /\ reg = MaybeLegacyNonces_new
          /\ built = None
          /\ balances = NoBalances
          /\ fees = FeesConfig_default
          /\ locked = {}
          /\ public_keys = NoKeys
          /\ inspector = SimulateInspector_default
          /\ was_current = {SaltRegistry_new(DeploySeed).current}
          /\ last = [op |-> "new"]
       \/ \E legacy \in LegacyMaps :
             /\ reg = with_legacy(legacy)
             /\ built = Some(legacy)
             /\ balances = NoBalances
             /\ fees = FeesConfig_default
             /\ locked = {}
             /\ public_keys = NoKeys
             /\ inspector = SimulateInspector_default
             /\ was_current = {SaltRegistry_new(DeploySeed).current}
             /\ last = [op |-> "with_legacy"]
    /\ salts = SaltRegistry_new(DeploySeed)
    /\ now = 0
    /\ accounts = NoAccounts
    /\ admitted = NoAccounts
    /\ revoked = {}

Commit(n) ==
    LET r == MaybeLegacyNonces_commit(reg, n)
    IN  /\ reg' = r.reg
        /\ last' = [op |-> "commit", nonce |-> n, pre |-> reg, res |-> r.res]
        /\ UNCHANGED <<salts, now, accounts, admitted, revoked, built, balances, fees,
                   locked, public_keys, inspector, was_current>>

CleanupByPrefix(n) ==
    LET r == MaybeLegacyNonces_cleanup_by_prefix(reg, prefix_of(n))
    IN  /\ reg' = r.reg
        /\ last' = [op |-> "cleanup_by_prefix", nonce |-> n, pre |-> reg,
                    removed |-> r.removed]
        /\ UNCHANGED <<salts, now, accounts, admitted, revoked, built, balances, fees,
                   locked, public_keys, inspector, was_current>>

NextNonces ==
    \/ \E n \in UnitNonces : Commit(n)
    \/ \E n \in UnitNonces : CleanupByPrefix(n)

SpecNonces == InitNonces /\ [][NextNonces]_vars

---------------------------------------------------------------------------
(* The codec alone: encode a V1 value and decode the result, or decode a   *)
(* raw 32-byte value                                                       *)

InitCodec ==
    /\ last = [op |-> "none"]
    /\ salts = SaltRegistry_new(DeploySeed)
    /\ now = 0
    /\ accounts = NoAccounts
    /\ admitted = NoAccounts
    /\ revoked = {}
    /\ reg = MaybeLegacyNonces_new
    /\ built = None
    /\ balances = NoBalances
    /\ fees = FeesConfig_default
    /\ locked = {}
    /\ public_keys = NoKeys
    /\ inspector = SimulateInspector_default
    /\ was_current = {SaltRegistry_new(DeploySeed).current}

EncodeDecode(v) ==
    /\ last' = [op |-> "encode", value |-> v, bytes |-> encode(v),
                back |-> decode(encode(v))]
    /\ UNCHANGED <<salts, now, accounts, admitted, revoked, reg, built, balances, fees,
                   locked, public_keys, inspector, was_current>>

Decode(b) ==
    /\ last' = [op |-> "decode", bytes |-> b, out |-> decode(b)]
    /\ UNCHANGED <<salts, now, accounts, admitted, revoked, reg, built, balances, fees,
                   locked, public_keys, inspector, was_current>>

NextCodec ==
    \/ \E v \in CodecValues : EncodeDecode(v)
    \/ \E b \in RawNonces : Decode(b)

SpecCodec == InitCodec /\ [][NextCodec]_vars

---------------------------------------------------------------------------
(* SpecDiff: batches of TokenDiff intents settled over a small ledger      *)

\* What each trader holds of its own token before the first batch
InitialFunds == 2

\* Largest amount of one token the ledger ever holds
MaxSupply == 3

\* The diffs that intents carry: the two sides of a swap of 1 ft1 for 2
\* ft2, a counterparty that is one ft2 short, and the giver's side of a
\* swap that balances once the fee is taken
SwapGive == MapInsert(MapInsert(NoDeltas, "ft1", 0 - 1), "ft2", 2)
SwapTake == MapInsert(MapInsert(NoDeltas, "ft1", 1), "ft2", 0 - 2)
SwapShort == MapInsert(MapInsert(NoDeltas, "ft1", 1), "ft2", 0 - 1)
SwapGiveFee == MapInsert(MapInsert(NoDeltas, "ft1", 0 - 2), "ft2", 1)

Diffs == {SwapGive, SwapTake, SwapShort, SwapGiveFee}

\* Nonces of the intents: only the replay check applies to them
DiffNonces == LegacyNonces

Intents ==
    [signer : AccountIds, nonce : DiffNonces, deadline : {MaxTime},
     diff : Diffs]

Batches == {<<>>} \cup {<<i>> : i \in Intents}
                  \cup {<<i, j>> : i \in Intents, j \in Intents}

InitDiff ==
    /\ salts = SaltRegistry_new(DeploySeed)
    /\ now = 0
    /\ accounts = NoAccounts
    /\ admitted = NoAccounts
    /\ revoked = {}
    /\ reg = MaybeLegacyNonces_new
    /\ built = None
    /\ last = [op |-> "deploy"]
    /\ balances = [NoBalances EXCEPT !["alice"]["ft1"] = InitialFunds,
                                     !["bob"]["ft2"] = InitialFunds]
    /\ fees = FeesConfig_default
    /\ locked = {}
    /\ public_keys = NoKeys
    /\ inspector = SimulateInspector_default
    /\ was_current = {SaltRegistry_new(DeploySeed).current}

\* execute_intents on a batch of TokenDiff intents
ExecuteTokenDiffs(batch) ==
    LET r == apply_token_diff_batch(accounts, balances, salts, now, fees, batch)
    IN  /\ accounts' = r.accounts
        /\ balances' = r.balances
        /\ UNCHANGED <<salts, now, admitted, revoked, reg, built, last, fees, locked,
                   public_keys, inspector, was_current>>

RECURSIVE total_of(_, _, _)
total_of(bals, t, hs) ==
    IF hs = {} THEN 0
    ELSE LET h == CHOOSE x \in hs : TRUE
         IN  bals[h][t] + total_of(bals, t, hs \ {h})

\* The supply of token t: what all holders have of it
supply(bals, t) == total_of(bals, t, Holders)

\* A deposit of one unit of token t to account a
Deposit(a, t) ==
    /\ supply(balances, t) < MaxSupply
    /\ balances' = deposit(balances, a, t, 1)
    /\ UNCHANGED <<salts, now, accounts, admitted, revoked, reg, built, last,
                   fees, locked, public_keys, inspector, was_current>>

\* simulate_intents on a batch of TokenDiff intents
SimulateIntents(batch) ==
    LET c == simulated_state(accounts, balances,
                 stage_batch(Shadow(accounts, balances), salts, now,
                             fees.fee, batch))
    IN  /\ accounts' = c.accounts
        /\ balances' = c.balances
        /\ UNCHANGED <<salts, now, admitted, revoked, reg, built, last, fees, locked,
                   public_keys, inspector, was_current>>

\* set_fee
SetFee(fee) ==
    /\ fees' = [fees EXCEPT !.fee = fee]
    /\ UNCHANGED <<salts, now, accounts, admitted, revoked, reg, built, last,
                   balances, locked, public_keys, inspector, was_current>>

NextDiff ==
    \/ \E batch \in Batches : ExecuteTokenDiffs(batch)
    \/ \E batch \in Batches : SimulateIntents(batch)
    \/ \E a \in AccountIds, t \in Tokens : Deposit(a, t)
    \/ \E fee \in FeeRates : SetFee(fee)

SpecDiff == InitDiff /\ [][NextDiff]_vars

---------------------------------------------------------------------------
(* The contract with account locks: force_lock_account and                 *)
(* force_unlock_account between batches, transfers, deposits and public    *)
(* keys                                                                    *)

\* The batches executed here: up to two payloads, two payloads having
\* different signers
LockBatches ==
    {<<>>} \cup {<<i>> : i \in Intents}
           \cup {p \in {<<i, j>> : i \in Intents, j \in Intents} :
                     /\ p[1].signer # p[2].signer
                     /\ p[1].nonce = p[2].nonce}

InitLock == InitDiff

ForceLockAccount(a) ==
    LET r == force_lock_account(accounts, locked, a)
    IN  /\ accounts' = r.accounts
        /\ locked' = r.locked
        /\ UNCHANGED <<salts, now, admitted, revoked, reg, built, last,
                       balances, fees, public_keys, inspector,
                   was_current>>

ForceUnlockAccount(a) ==
    LET r == force_unlock_account(accounts, locked, a)
    IN  /\ accounts' = r.accounts
        /\ locked' = r.locked
        /\ UNCHANGED <<salts, now, admitted, revoked, reg, built, last,
                       balances, fees, public_keys, inspector,
                   was_current>>

ExecuteIntents_locks(batch) ==
    LET r == execute_intents(accounts, balances, locked, salts, now, fees,
                             batch)
    IN  /\ accounts' = r.accounts
        /\ balances' = r.balances
        /\ UNCHANGED <<salts, now, admitted, revoked, reg, built, last, fees,
                       locked, public_keys, inspector, was_current>>

\* mt_transfer of one unit
MtTransfer(sender, receiver, t) ==
    /\ sender # receiver
    /\ balances' = mt_transfer(balances, locked, sender, receiver, t, 1).balances
    /\ UNCHANGED <<salts, now, accounts, admitted, revoked, reg, built, last,
                   fees, locked, public_keys, inspector, was_current>>

AddPublicKey(a, pk) ==
    /\ public_keys' = add_public_key(public_keys, locked, a, pk).keys
    /\ UNCHANGED <<salts, now, accounts, admitted, revoked, reg, built, last,
                   balances, fees, locked, inspector, was_current>>

RemovePublicKey(a, pk) ==
    /\ public_keys' = remove_public_key(public_keys, locked, a, pk).keys
    /\ UNCHANGED <<salts, now, accounts, admitted, revoked, reg, built, last,
                   balances, fees, locked, inspector, was_current>>

NextLock ==
    \/ \E a \in AccountIds : ForceLockAccount(a)
    \/ \E a \in AccountIds : ForceUnlockAccount(a)
    \/ \E batch \in LockBatches : ExecuteIntents_locks(batch)
    \/ \E a \in AccountIds, t \in Tokens : Deposit(a, t)
    \/ \E s \in AccountIds, r \in AccountIds, t \in Tokens : MtTransfer(s, r, t)
    \/ \E a \in AccountIds, pk \in PublicKeys : AddPublicKey(a, pk)
    \/ \E a \in AccountIds, pk \in PublicKeys : RemovePublicKey(a, pk)

SpecLock == InitLock /\ [][NextLock]_vars

---------------------------------------------------------------------------
(* The closure quotes driven on their own: an amount and a fee are drawn,  *)
(* then one batch is settled with the quoted delta                         *)

\* Largest amount quoted
MaxAmount == 120

Amounts == 1 .. MaxAmount

\* The fees the scenarios run with
ClosureFees == {ZERO, ONE_BIP, ONE_PERCENT}

\* A TokenDiff intent of signer a on the single token ft1
closure_intent(a, n, x) ==
    [signer |-> a, nonce |-> n, deadline |-> MaxTime,
     diff |-> add_delta(NoDeltas, "ft1", x)]

FirstNonce == CHOOSE n \in DiffNonces : TRUE

SecondNonce == CHOOSE n \in DiffNonces \ {FirstNonce} : TRUE

InitClosure ==
    \E x \in Amounts, fee \in ClosureFees :
        /\ salts = SaltRegistry_new(DeploySeed)
        /\ now = 0
        /\ accounts = NoAccounts
        /\ admitted = NoAccounts
        /\ revoked = {}
        /\ reg = MaybeLegacyNonces_new
        /\ built = None
        /\ last = [op |-> "rfq", x |-> x]
        /\ balances = [NoBalances EXCEPT !["alice"]["ft1"] = 2 * x]
        /\ fees = [FeesConfig_default EXCEPT !.fee = fee]
        /\ locked = {}
        /\ public_keys = NoKeys
        /\ inspector = SimulateInspector_default
        /\ was_current = {SaltRegistry_new(DeploySeed).current}

\* swap_p2p on one token: alice gives x, bob takes the closure of it
\* (b: the batch)
SettleClosure(b) ==
    LET r == apply_token_diff_batch(accounts, balances, salts, now, fees, b)
    IN  /\ accounts' = r.accounts
        /\ balances' = r.balances
        /\ last' = [op |-> "closure_delta", x |-> last.x,
                    quote |-> delta_of(b[2].diff, "ft1"), pre |-> balances,
                    res |-> r.res, report |-> r.report]
        /\ UNCHANGED <<salts, now, admitted, revoked, reg, built, fees,
                       locked, public_keys, inspector, was_current>>

CloseGive ==
    /\ last.op = "rfq"
    /\ SettleClosure(<<closure_intent("alice", FirstNonce, 0 - last.x),
                       closure_intent("bob", FirstNonce,
                           closure_delta("ft1", 0 - last.x, fees.fee))>>)

\* solver_user_closure on one token: the batch `open` is simulated, its
\* residual r is quoted (first: the simulation output) and the intent of
\* `closer` with the quoted delta is added to the batch, which is executed
SettleResidual(open, first, closer) ==
    LET r == delta_of(first.output.invariant_violated.val.unmatched_deltas,
                      "ft1")
        q == closure_supply_delta("ft1", r, fees.fee)
        b == open \o <<closure_intent(closer, SecondNonce, q)>>
        e == apply_token_diff_batch(accounts, balances, salts, now, fees, b)
    IN  /\ accounts' = e.accounts
        /\ balances' = e.balances
        /\ last' = [op |-> "closure_supply_delta", x |-> last.x,
                    open |-> open, residual |-> r, quote |-> q,
                    pre |-> balances, batch |-> b,
                    res |-> e.res, report |-> e.report]
        /\ UNCHANGED <<salts, now, admitted, revoked, reg, built, fees,
                       locked, public_keys, inspector, was_current>>

CloseResidual(a, x) ==
    /\ last.op = "rfq"
    /\ simulate_intents(accounts, balances, salts, now, fees,
                        <<closure_intent(a, FirstNonce, x)>>)
           .output.invariant_violated.some
    /\ SettleResidual(<<closure_intent(a, FirstNonce, x)>>,
                      simulate_intents(accounts, balances, salts, now, fees,
                                       <<closure_intent(a, FirstNonce, x)>>),
                      IF a = "alice" THEN "bob" ELSE "alice")

NextClosure ==
    \/ CloseGive
    \/ CloseResidual("alice", 0 - last.x)
    \/ CloseResidual("bob", last.x)

SpecClosure == InitClosure /\ [][NextClosure]_vars

---------------------------------------------------------------------------
(* The migration of an account entry: an AccountV0 commits nonces into its *)
(* Nonces registry, is converted into the current Account once, and goes   *)
(* on committing and cleaning up                                           *)

\* AccountFlags::IMPLICIT_PUBLIC_KEY_REMOVED
IMPLICIT_PUBLIC_KEY_REMOVED == "IMPLICIT_PUBLIC_KEY_REMOVED"

\* AccountV0::new
AccountV0_new(removed) ==
    [version |-> "V0", nonces |-> EmptyMap,
     implicit_public_key_removed |-> removed, public_keys |-> {}]

\* Faulty variant of the conversion: the registry of the V0 account is left
\* behind
FromV0DropsLegacy(v0) ==
    [version |-> "latest", nonces |-> MaybeLegacyNonces_new,
     flags |-> IF v0.implicit_public_key_removed
               THEN {IMPLICIT_PUBLIC_KEY_REMOVED} ELSE {},
     public_keys |-> v0.public_keys]

\* impl From<AccountV0> for Account
Account_from_v0(v0) ==
    [version |-> "latest", nonces |-> with_legacy(v0.nonces),
     flags |-> IF v0.implicit_public_key_removed
               THEN {IMPLICIT_PUBLIC_KEY_REMOVED} ELSE {},
     public_keys |-> v0.public_keys]

\* The nonces the account commits: the ones a V0 account may hold and one
\* more of the same prefix as the versioned one
MigrateNonces ==
    MigratedNonces \cup {from_versioned(V1(derive(DeploySeed, 0), 0, 0, 1))}

InitMigrate ==
    /\ \E removed \in BOOLEAN : reg = AccountV0_new(removed)
    /\ built = None
    /\ last = [op |-> "new"]
    /\ salts = SaltRegistry_new(DeploySeed)
    /\ now = 0
    /\ accounts = NoAccounts
    /\ admitted = NoAccounts
    /\ revoked = {}
    /\ balances = NoBalances
    /\ fees = FeesConfig_default
    /\ locked = {}
    /\ public_keys = NoKeys
    /\ inspector = SimulateInspector_default
    /\ was_current = {SaltRegistry_new(DeploySeed).current}

\* commit on the registry of the V0 account
CommitV0(n) ==
    /\ reg.version = "V0"
    /\ reg' = [reg EXCEPT !.nonces = Nonces_commit(reg.nonces, n).reg]
    /\ last' = [op |-> "commit_v0", nonce |-> n, pre |-> reg,
                res |-> Nonces_commit(reg.nonces, n).res]
    /\ UNCHANGED <<salts, now, accounts, admitted, revoked, built, balances,
                   fees, locked, public_keys, inspector, was_current>>

\* The entry is read as V0 and converted
Migrate ==
    /\ reg.version = "V0"
    /\ reg' = Account_from_v0(reg)
    /\ built' = Some(reg.nonces)
    /\ last' = [op |-> "migrate", nonce |-> NoSalt, pre |-> reg,
                res |-> Ok(NoSalt)]
    /\ UNCHANGED <<salts, now, accounts, admitted, revoked, balances, fees,
                   locked, public_keys, inspector, was_current>>

\* commit on the migrated account
CommitMigrated(n) ==
    /\ reg.version = "latest"
    /\ reg' = [reg EXCEPT !.nonces = MaybeLegacyNonces_commit(reg.nonces, n).reg]
    /\ last' = [op |-> "commit", nonce |-> n, pre |-> reg,
                res |-> MaybeLegacyNonces_commit(reg.nonces, n).res]
    /\ UNCHANGED <<salts, now, accounts, admitted, revoked, built, balances,
                   fees, locked, public_keys, inspector, was_current>>

\* cleanup_by_prefix on the migrated account
CleanupMigrated(n) ==
    /\ reg.version = "latest"
    /\ reg' = [reg EXCEPT !.nonces =
                   MaybeLegacyNonces_cleanup_by_prefix(reg.nonces,
                                                       prefix_of(n)).reg]
    /\ last' = [op |-> "cleanup_by_prefix", nonce |-> n, pre |-> reg,
                res |-> Ok(NoSalt)]
    /\ UNCHANGED <<salts, now, accounts, admitted, revoked, built, balances,
                   fees, locked, public_keys, inspector, was_current>>

NextMigrate ==
    \/ \E n \in MigrateNonces : CommitV0(n)
    \/ Migrate
    \/ \E n \in MigrateNonces : CommitMigrated(n)
    \/ \E n \in MigrateNonces : CleanupMigrated(n)

SpecMigrate == InitMigrate /\ [][NextMigrate]_vars

---------------------------------------------------------------------------
(* The SimulateInspector driven on its own: the engine calls it in any     *)
(* order; `last` is the sequence of the calls made                         *)

\* Largest number of calls on one inspector
MaxCalls == 4

\* The events the engine records
InspectorEvents ==
    {[event |-> e, data |-> <<>>] : e \in {"token_diff", "public_key_added"}}

\* The hashes of the intents executed
IntentHashes == {"h1", "h2"}

InitInspector ==
    /\ inspector = SimulateInspector_default
    /\ was_current = {SaltRegistry_new(DeploySeed).current}
    /\ last = <<>>
    /\ salts = SaltRegistry_new(DeploySeed)
    /\ now = 0
    /\ accounts = NoAccounts
    /\ admitted = NoAccounts
    /\ revoked = {}
    /\ reg = MaybeLegacyNonces_new
    /\ built = None
    /\ balances = NoBalances
    /\ fees = FeesConfig_default
    /\ locked = {}
    /\ public_keys = NoKeys

OnDeadline(deadline) ==
    /\ Len(last) < MaxCalls
    /\ inspector' = on_deadline(inspector, deadline)
    /\ last' = Append(last, [op |-> "on_deadline", deadline |-> deadline])
    /\ UNCHANGED <<salts, now, accounts, admitted, revoked, reg, built,
                   balances, fees, locked, public_keys, was_current>>

OnEvent(event) ==
    /\ Len(last) < MaxCalls
    /\ inspector' = on_event(inspector, event)
    /\ last' = Append(last, [op |-> "on_event", event |-> event])
    /\ UNCHANGED <<salts, now, accounts, admitted, revoked, reg, built,
                   balances, fees, locked, public_keys, was_current>>

OnIntentExecuted(signer_id, intent_hash) ==
    /\ Len(last) < MaxCalls
    /\ inspector' = on_intent_executed(inspector, signer_id, intent_hash,
                                       FirstNonce)
    /\ last' = Append(last, [op |-> "on_intent_executed",
                             signer_id |-> signer_id,
                             intent_hash |-> intent_hash])
    /\ UNCHANGED <<salts, now, accounts, admitted, revoked, reg, built,
                   balances, fees, locked, public_keys, was_current>>

NextInspector ==
    \/ \E deadline \in Times : OnDeadline(deadline)
    \/ \E event \in InspectorEvents : OnEvent(event)
    \/ \E a \in AccountIds, h \in IntentHashes : OnIntentExecuted(a, h)

SpecInspector == InitInspector /\ [][NextInspector]_vars

---------------------------------------------------------------------------
(* Terms of the properties, as the specification words them               *)

\* A salt is valid iff it is current, or a key of previous flagged true
SaltValid(sr, s) ==
    s = sr.current \/ (s \in DOMAIN sr.previous /\ sr.previous[s] = TRUE)

\* Nonce n decodes as a versioned nonce that carries salt s
Carries(n, s) == maybe_from(n).some /\ maybe_from(n).val.salt = s

\* The deadline embedded in a versioned nonce
EmbeddedDeadline(n) == maybe_from(n).val.nonce.deadline

\* The version tags that name a variant
KnownTags == {V1_TAG}

\* Nonce n is not a versioned nonce: other leading bytes, or no known tag
NotVersioned(n) == n.magic # VERSIONED_MAGIC_PREFIX \/ n.tag \notin KnownTags

\* The errors of the versioned admission checks
VersionedErrors == {"InvalidNonceDeadline", "DeadlineExpired", "InvalidSalt"}

---------------------------------------------------------------------------
(* Properties of the contract (Spec)                                       *)

\* C1: for every account and nonce, over any sequence of admissions, clock
\* advances, rotations, invalidations and cleanup_nonces calls, the
\* admission of that nonce for that account succeeds at most once: a
\* versioned nonce whose bit was reclaimed is never admitted again, and
\* neither is a legacy nonce.
C1_AdmittedAtMostOnce ==
    \A p \in DOMAIN admitted : admitted[p] <= 1

C1_Witness ==
    /\ \E p \in DOMAIN admitted :
          /\ maybe_from(p[2]).some
          /\ admitted[p] = 1
          /\ ~is_nonce_used(accounts, p[1], p[2])
          /\ \A D \in Times : ~admit(accounts, salts, now, p[1], p[2], D).res.ok
    /\ \E q \in DOMAIN admitted :
          /\ ~maybe_from(q[2]).some
          /\ admitted[q] = 1
          /\ \A D \in Times :
                admit(accounts, salts, now, q[1], q[2], D).res.err = "NonceUsed"

\* C3: the admission of a versioned nonce (salt s, deadline nd) carried by
\* a payload with deadline D commits the nonce only if nd >= D, nd has not
\* expired and s is valid; when one of these fails the admission fails with
\* the error of a requirement that does not hold (InvalidNonceDeadline,
\* DeadlineExpired, InvalidSalt respectively), nothing is persisted and the
\* nonce remains unused.
C3_VersionedAdmissionChecks ==
    \A a \in Signers, n \in VersionedNonces, D \in Times :
        LET nd == EmbeddedDeadline(n)
            deadlineOk == nd >= D
            live == ~(nd < now)
            saltOk == SaltValid(salts, maybe_from(n).val.salt)
            r == admit(accounts, salts, now, a, n, D)
        IN  ~is_nonce_used(accounts, a, n) =>
              /\ r.res.ok => is_nonce_used(r.accounts, a, n)
              /\ is_nonce_used(r.accounts, a, n) =>
                    r.res.ok /\ deadlineOk /\ live /\ saltOk
              /\ ~(deadlineOk /\ live /\ saltOk) =>
                    /\ ~r.res.ok
                    /\ r.res.err \in VersionedErrors
                    /\ r.res.err = "InvalidNonceDeadline" => ~deadlineOk
                    /\ r.res.err = "DeadlineExpired" => ~live
                    /\ r.res.err = "InvalidSalt" => ~saltOk
                    /\ r.accounts = accounts
                    /\ ~is_nonce_used(r.accounts, a, n)

C3_Witness ==
    /\ \E p \in DOMAIN admitted : maybe_from(p[2]).some
    /\ \A e \in VersionedErrors :
          \E a \in Signers, n \in VersionedNonces, D \in Times :
              /\ ~is_nonce_used(accounts, a, n)
              /\ admit(accounts, salts, now, a, n, D).res.err = e
    /\ \E a \in Signers, n \in VersionedNonces, D \in Times :
          admit(accounts, salts, now, a, n, D).res.ok

RevokedSaltRefused ==
    \A S \in revoked, a \in Signers, n \in VersionedNonces, D \in Times :
        (Carries(n, S) /\ ~is_nonce_used(accounts, a, n)) =>
            LET r == admit(accounts, salts, now, a, n, D)
                nd == EmbeddedDeadline(n)
            IN  /\ ~r.res.ok
                /\ r.res.err \in VersionedErrors
                /\ (nd >= D /\ ~(nd < now)) => r.res.err = "InvalidSalt"
                /\ r.res.err = "InvalidNonceDeadline" => nd < D
                /\ r.res.err = "DeadlineExpired" => nd < now
                /\ r.accounts = accounts

\* A step in which an invalidation takes effect leaves every account's
\* nonces as they were
InvalidationKeepsBitmap ==
    revoked' # revoked => accounts' = accounts

OtherRegistries ==
    {SaltRegistry_new(seed) : seed \in Seeds}
        \cup {invalidate(SaltRegistry_new(seed), derive(seed, 0), seed).reg :
                seed \in Seeds}

\* C15: a nonce that does not decode as versioned is admitted if and only
\* if it is not already used for that account; a refusal is NonceUsed and
\* the outcome is the same whatever the payload deadline, the block time
\* and the Salt Registry (hence whatever rotations and invalidations).
C15_LegacyAdmissionReplayOnly ==
    \A a \in Signers, n \in AllNonces, D \in Times :
        NotVersioned(n) =>
            LET r == admit(accounts, salts, now, a, n, D)
            IN  /\ r.res.ok = ~is_nonce_used(accounts, a, n)
                /\ r.res.ok => is_nonce_used(r.accounts, a, n)
                /\ ~r.res.ok => (r.res.err = "NonceUsed" /\ r.accounts = accounts)
                /\ \A sr \in OtherRegistries, t \in Times :
                      admit(accounts, sr, t, a, n, D) = r

C15_Witness ==
    /\ revoked # {}
    /\ DOMAIN salts.previous # {}
    /\ now = MaxTime
    /\ \E p \in DOMAIN admitted :
          NotVersioned(p[2]) /\ is_nonce_used(accounts, p[1], p[2])
    /\ \E a \in Signers, n \in AllNonces :
          /\ NotVersioned(n)
          /\ ~is_nonce_used(accounts, a, n)
          /\ \A D \in Times : admit(accounts, salts, now, a, n, D).res.ok

\* A nonce may be reclaimed: it is versioned, and its embedded deadline has
\* expired at time t or its salt is not valid in registry sr
Reclaimable(sr, t, n) ==
    /\ ~NotVersioned(n)
    /\ (n.deadline < t \/ ~SaltValid(sr, n.salt))

\* Nonces of one prefix are versioned alike, with one salt and one deadline
PrefixFixesSaltAndDeadline ==
    \A n, m \in AllNonces :
        prefix_of(n) = prefix_of(m) =>
            /\ NotVersioned(n) = NotVersioned(m)
            /\ n.salt = m.salt
            /\ n.deadline = m.deadline

\* C16: cleanup_nonces never turns a used nonce into an unused one unless
\* that nonce is itself cleanable (versioned, and expired or under a salt
\* that is not valid); the nonces that share the prefix of a nonce, and lose
\* their bit with it, are versioned alike and carry its salt and deadline.
C16_CleanupOnlyReclaimable ==
    /\ \A a \in AccountIds, n \in AllNonces :
          LET after == cleanup_nonces(accounts, salts, now, <<<<a, n>>>>)
          IN  \A b \in AccountIds, m \in AllNonces :
                 (is_nonce_used(accounts, b, m) /\ ~is_nonce_used(after, b, m))
                     => Reclaimable(salts, now, m)
    /\ PrefixFixesSaltAndDeadline

\* Two used nonces of one prefix, reclaimed together by one listed nonce
C16_Witness ==
    \E a \in Signers, n, m \in AllNonces :
        /\ n # m
        /\ prefix_of(n) = prefix_of(m)
        /\ is_nonce_used(accounts, a, n)
        /\ is_nonce_used(accounts, a, m)
        /\ LET after == cleanup_nonces(accounts, salts, now, <<<<a, n>>>>)
           IN  ~is_nonce_used(after, a, n) /\ ~is_nonce_used(after, a, m)

\* The listed pairs a cleanup call is followed up with
FollowUps ==
    {<<a, n>> : a \in Signers, n \in {v \in VersionedNonces : v.idx = 0}}

\* C17: cleanup_nonces is best-effort.  A listed (account, nonce) is cleared
\* when the account exists and the nonce is versioned and expired or under
\* an invalid salt; a legacy nonce, an unexpired nonce under a valid salt
\* and an unknown account leave the state as it was, an already-cleared
\* nonce stays cleared, no account is created, and the rest of the list is
\* processed as if the skipped entry had not been listed.
C17_CleanupBestEffort ==
    \A a \in AccountIds, n \in AllNonces :
        LET after == cleanup_nonces(accounts, salts, now, <<<<a, n>>>>)
        IN  /\ DOMAIN after = DOMAIN accounts
            /\ (a \in DOMAIN accounts /\ Reclaimable(salts, now, n))
                  => ~is_nonce_used(after, a, n)
            /\ (a \notin DOMAIN accounts \/ ~Reclaimable(salts, now, n))
                  => /\ after = accounts
                     /\ \A q \in FollowUps :
                           cleanup_nonces(accounts, salts, now, <<<<a, n>>, q>>)
                             = cleanup_nonces(accounts, salts, now, <<q>>)
            /\ ~is_nonce_used(accounts, a, n) => ~is_nonce_used(after, a, n)

\* A used legacy nonce and a used unexpired nonce under a valid salt, listed
\* with an unknown account and a nonce that holds no bit: all are skipped
C17_Witness ==
    \E a \in Signers, l, v, e \in AllNonces :
        /\ NotVersioned(l) /\ is_nonce_used(accounts, a, l)
        /\ ~NotVersioned(v) /\ ~Reclaimable(salts, now, v)
        /\ is_nonce_used(accounts, a, v)
        /\ Reclaimable(salts, now, e) /\ ~is_nonce_used(accounts, a, e)
        /\ \E b \in AccountIds :
              /\ b \notin DOMAIN accounts
              /\ cleanup_nonces(accounts, salts, now,
                                <<<<a, e>>, <<a, l>>, <<a, v>>, <<b, e>>>>)
                   = accounts

---------------------------------------------------------------------------
(* Properties of MaybeLegacyNonces and Nonces (SpecNonces)                 *)

\* C2: for every nonce n, commit(n) called twice in a row, on Nonces or on
\* MaybeLegacyNonces, returns Ok then Err(NonceUsed); a failing commit
\* leaves the registry unchanged.
C2_CommitTwice ==
    /\ \A n \in UnitNonces :
          ~MaybeLegacyNonces_is_used(reg, n) =>
              LET first == MaybeLegacyNonces_commit(reg, n)
                  second == MaybeLegacyNonces_commit(first.reg, n)
              IN  /\ first.res.ok
                  /\ ~second.res.ok
                  /\ second.res.err = "NonceUsed"
                  /\ second.reg = first.reg
    /\ \A n \in UnitNonces :
          ~Nonces_is_used(reg.nonces, n) =>
              LET first == Nonces_commit(reg.nonces, n)
                  second == Nonces_commit(first.reg, n)
              IN  /\ first.res.ok
                  /\ ~second.res.ok
                  /\ second.res.err = "NonceUsed"
                  /\ second.reg = first.reg
    /\ last.op = "commit" =>
          /\ last.res.ok =>
                LET again == MaybeLegacyNonces_commit(reg, last.nonce)
                IN  again.res = Err("NonceUsed") /\ again.reg = reg
          /\ ~last.res.ok => (last.res.err = "NonceUsed" /\ reg = last.pre)

C2_Witness ==
    /\ last.op = "commit"
    /\ last.res = Err("NonceUsed")
    /\ Nonces_is_used(reg.nonces, last.nonce)
    /\ reg = last.pre
    /\ \E n \in UnitNonces : ~MaybeLegacyNonces_is_used(reg, n)

\* Nonce n has its bit set in the legacy registry of ml
InLegacy(ml, n) == ml.legacy.some /\ get_bit(ml.legacy.val, n)

\* C11: commit(n), when a legacy registry exists and reports n used, fails
\* with NonceUsed and changes neither the new nor the legacy registry.
C11_LegacyUsedCommitFails ==
    (last.op = "commit" /\ InLegacy(last.pre, last.nonce)) =>
        /\ last.res = Err("NonceUsed")
        /\ reg.nonces = last.pre.nonces
        /\ reg.legacy = last.pre.legacy

C11_Witness ==
    /\ last.op = "commit"
    /\ InLegacy(last.pre, last.nonce)
    /\ last.res = Err("NonceUsed")
    /\ ~get_bit(reg.nonces, last.nonce)
    /\ DOMAIN reg.nonces # {}

\* Built with_legacy(L): the legacy registry is still L, every nonce of L
\* reports used, and a successful commit leaves the legacy registry alone
LegacyKept ==
    built.some =>
        /\ reg.legacy = built
        /\ \A n \in UnitNonces \cup MigratedNonces :
              get_bit(built.val, n) => MaybeLegacyNonces_is_used(reg, n)
        /\ (last.op = "commit" /\ last.res.ok) =>
              (reg.legacy = last.pre.legacy /\ ~get_bit(built.val, last.nonce))

\* C12 as stated: the legacy registry is kept, and cleanup_by_prefix on the
\* prefix of a nonce that is only in L returns false.
C12_Original ==
    /\ LegacyKept
    /\ (/\ built.some
        /\ last.op = "cleanup_by_prefix"
        /\ get_bit(built.val, last.nonce)
        /\ ~get_bit(last.pre.nonces, last.nonce)) => ~last.removed

\* C12 (amended): for a MaybeLegacyNonces built with_legacy(L), after any
\* sequence of commit and cleanup_by_prefix calls the legacy registry still
\* equals L, every nonce of L still reports used and no successful commit
\* writes into L; cleanup_by_prefix on the prefix of a nonce of L leaves
\* that nonce used, and returns false unless the new registry holds a word
\* for that prefix (a nonce of the same prefix committed since), in which
\* case it removes that word and returns true.
C12_LegacyImmutable ==
    /\ LegacyKept
    /\ (/\ built.some
        /\ last.op = "cleanup_by_prefix"
        /\ get_bit(built.val, last.nonce)) =>
            /\ MaybeLegacyNonces_is_used(reg, last.nonce)
            /\ last.removed = (prefix_of(last.nonce) \in DOMAIN last.pre.nonces)
            /\ prefix_of(last.nonce) \notin DOMAIN reg.nonces

C12_Witness ==
    /\ built.some
    /\ last.op = "cleanup_by_prefix"
    /\ get_bit(built.val, last.nonce)
    /\ ~last.removed
    /\ DOMAIN reg.nonces # {}
    /\ MaybeLegacyNonces_is_used(reg, last.nonce)

\* C13: in every reachable state is_used(n) is true exactly when n is used
\* in the new registry, or a legacy registry exists and n is used in it; a
\* MaybeLegacyNonces created with new() never has a legacy registry.
C13_IsUsedIsNewOrLegacy ==
    /\ \A n \in UnitNonces \cup MigratedNonces :
          MaybeLegacyNonces_is_used(reg, n) =
              (get_bit(reg.nonces, n) \/ InLegacy(reg, n))
    /\ ~built.some => ~reg.legacy.some

C13_Witness ==
    /\ ~built.some
    /\ ~reg.legacy.some
    /\ last.op = "cleanup_by_prefix"
    /\ last.removed
    /\ \E n \in UnitNonces : MaybeLegacyNonces_is_used(reg, n)
    /\ \E n \in UnitNonces : ~MaybeLegacyNonces_is_used(reg, n)

---------------------------------------------------------------------------
(* Properties of the codec (SpecCodec)                                     *)

\* C14: encoding a V1 value into the 32-byte Nonce and decoding it yields
\* the original value; maybe_from returns None for every 32-byte value
\* whose first 4 bytes differ from the magic prefix or whose version tag
\* names no variant.  The same holds of the codec on a nonce's fields,
\* which reads what the codec on bytes reads.
C14_CodecRoundTrip ==
    /\ last.op = "encode" =>
          /\ Len(last.bytes) = NONCE_SIZE
          /\ last.back = Some(last.value)
    /\ last.op = "decode" =>
          ((\/ SubSeq(last.bytes, 1, Len(MAGIC_BYTES)) # MAGIC_BYTES
            \/ last.bytes[Len(MAGIC_BYTES) + 1] \notin KnownTags)
              => last.out = None)
    /\ \A n \in AllNonces :
          LET d == decode(to_bytes(n))
              m == maybe_from(n)
          IN  /\ d.some = m.some
              /\ (n.magic # VERSIONED_MAGIC_PREFIX \/ n.tag \notin KnownTags)
                    => ~m.some
              /\ m.some =>
                    /\ from_versioned(m.val) = n
                    /\ d.val.salt = le_bytes(m.val.salt, SALT_SIZE)
                    /\ d.val.nonce.deadline = m.val.nonce.deadline
                    /\ d.val.nonce.nonce[RANDOM_SIZE] = m.val.nonce.nonce[2]

C14_Witness ==
    /\ last.op = "encode"
    /\ last.value.nonce.deadline > 255
    /\ last.back = Some(last.value)
    /\ \E b \in RawNonces :
          /\ SubSeq(b, 1, Len(MAGIC_BYTES)) = MAGIC_BYTES
          /\ b[Len(MAGIC_BYTES) + 1] # V1_TAG
          /\ decode(b) = None
    /\ \E b \in RawNonces :
          /\ SubSeq(b, 1, Len(MAGIC_BYTES)) # MAGIC_BYTES
          /\ b[Len(MAGIC_BYTES) + 1] = V1_TAG
          /\ decode(b) = None

---------------------------------------------------------------------------
(* Properties of the settlement of TokenDiff batches (SpecDiff)            *)

\* The sum of the raw deltas of token t over the first k intents of the
\* batch that the accounts in `who` signed
RECURSIVE RawSum(_, _, _, _)
RawSum(batch, k, who, t) ==
    IF k = 0 THEN 0
    ELSE RawSum(batch, k - 1, who, t)
           + (IF batch[k].signer \in who THEN delta_of(batch[k].diff, t) ELSE 0)

\* The same sum with the fee on every delta that gives a token away
RECURSIVE AdjustedSum(_, _, _, _)
AdjustedSum(batch, k, t, fee) ==
    IF k = 0 THEN 0
    ELSE LET x == delta_of(batch[k].diff, t)
         IN  AdjustedSum(batch, k - 1, t, fee) + x
               + (IF x < 0 THEN ((0 - x) * fee + PIPS_MAX - 1) \div PIPS_MAX
                  ELSE 0)

\* Every intent of the batch carries a nonce that is still unused for its
\* signer, and no two intents of one signer carry the same nonce
NoncesFresh(batch) ==
    /\ \A i \in 1..Len(batch) :
          ~is_nonce_used(accounts, batch[i].signer, batch[i].nonce)
    /\ \A i, j \in 1..Len(batch) :
          (i # j /\ batch[i].signer = batch[j].signer)
              => batch[i].nonce # batch[j].nonce

\* Every debit is covered when its intent is reached: by what the signer
\* holds and what the earlier intents of the batch changed
BalancesSuffice(batch) ==
    \A k \in 1..Len(batch), t \in Tokens :
        balances[batch[k].signer][t]
            + RawSum(batch, k, {batch[k].signer}, t) >= 0

\* Fee configuration with the fee rate set
WithFee(fee) == [fees EXCEPT !.fee = fee]

\* C18: a batch of TokenDiff intents whose raw deltas sum to zero for every
\* token, executed at fee ZERO with sufficient balances, commits; its
\* unmatched deltas are empty (in the settlement report and in the
\* simulation of the same batch), and every signer's final balance of each
\* token is its initial balance plus its own deltas.
C18_BalancedBatchCommits ==
    \A batch \in Batches :
        (/\ \A t \in Tokens : RawSum(batch, Len(batch), AccountIds, t) = 0
         /\ NoncesFresh(batch)
         /\ BalancesSuffice(batch))
        => LET r == apply_token_diff_batch(accounts, balances, salts, now,
                                           WithFee(ZERO), batch)
               s == simulate_intents(accounts, balances, salts, now,
                                     WithFee(ZERO), batch)
           IN  /\ r.res.ok
               /\ r.report.committed
               /\ r.report.unmatched_deltas = NoDeltas
               /\ s.res.ok
               /\ into_result(s.output).ok
               /\ \A a \in AccountIds, t \in Tokens :
                     r.balances[a][t]
                       = balances[a][t] + RawSum(batch, Len(batch), {a}, t)

\* A swap between two signers has been committed at no fee (nothing was
\* deposited, yet each side holds the other's token), and a further balanced
\* two-party batch can be settled
C18_Witness ==
    /\ fees.fee = ZERO
    /\ \A t \in Tokens : supply(balances, t) = InitialFunds
    /\ balances["alice"]["ft2"] > 0
    /\ balances["bob"]["ft1"] > 0
    /\ \E batch \in Batches :
          /\ Len(batch) = 2
          /\ batch[1].signer # batch[2].signer
          /\ \A t \in Tokens : RawSum(batch, 2, AccountIds, t) = 0
          /\ NoncesFresh(batch)
          /\ BalancesSuffice(batch)
          /\ apply_token_diff_batch(accounts, balances, salts, now, fees,
                                    batch).report.committed

\* C19: a batch rejected by the conservation check leaves the persisted
\* state as it was before the batch: every account's balance of every token
\* is unchanged, the fee collector's included, the nonce registries are
\* unchanged and the nonces of the batch's intents are still unused.
C19_RejectedBatchPersistsNothing ==
    \A batch \in Batches, fee \in FeeRates :
        LET r == apply_token_diff_batch(accounts, balances, salts, now,
                                        WithFee(fee), batch)
        IN  (~r.res.ok /\ r.res.err = "InvariantViolated")
            => /\ ~r.report.committed
               /\ \A h \in Holders, t \in Tokens :
                     r.balances[h][t] = balances[h][t]
               /\ r.accounts = accounts
               /\ \A i \in 1..Len(batch) :
                     ~is_nonce_used(r.accounts, batch[i].signer,
                                    batch[i].nonce)

\* After an earlier batch was committed, a batch of two intents with fresh
\* nonces and covered debits is rejected for a residual
C19_Witness ==
    /\ accounts # NoAccounts
    /\ \E batch \in Batches :
          /\ Len(batch) = 2
          /\ NoncesFresh(batch)
          /\ BalancesSuffice(batch)
          /\ \E t \in Tokens :
                AdjustedSum(batch, Len(batch), t, fees.fee) # 0
          /\ apply_token_diff_batch(accounts, balances, salts, now, fees,
                                    batch).res.err = "InvariantViolated"

\* The tokens of a batch whose fee-adjusted deltas do not sum to zero
Residual(batch, fee) ==
    {t \in Tokens : AdjustedSum(batch, Len(batch), t, fee) # 0}

\* C20: a batch is committed only if every token's accumulated fee-adjusted
\* delta is exactly zero.  A batch whose intents are all staged and that
\* leaves a non-zero accumulated delta for some token is rejected, and the
\* unmatched deltas reported (by the rejection and by the simulation of the
\* batch) hold exactly the tokens with a non-zero residual, each with its
\* residual amount, and no zero entry.
C20_CommitOnlyIfConserved ==
    \A batch \in Batches, fee \in FeeRates :
        LET r == apply_token_diff_batch(accounts, balances, salts, now,
                                        WithFee(fee), batch)
            s == simulate_intents(accounts, balances, salts, now,
                                  WithFee(fee), batch)
        IN  /\ r.report.committed => Residual(batch, fee) = {}
            /\ (/\ NoncesFresh(batch)
                /\ BalancesSuffice(batch)
                /\ Residual(batch, fee) # {})
               => /\ ~r.res.ok
                  /\ r.res.err = "InvariantViolated"
                  /\ ~r.report.committed
                  /\ s.res.ok
                  /\ LET u == into_result(s.output)
                     IN  /\ ~u.ok
                         /\ u.unmatched_deltas = r.report.unmatched_deltas
                         /\ DOMAIN u.unmatched_deltas = Residual(batch, fee)
                         /\ \A t \in DOMAIN u.unmatched_deltas :
                               /\ u.unmatched_deltas[t] # 0
                               /\ u.unmatched_deltas[t]
                                    = AdjustedSum(batch, Len(batch), t, fee)

\* With a fee in force and fees already collected from a committed batch, a
\* stageable batch leaves a residual for one token and none for the other
C20_Witness ==
    /\ fees.fee = ONE_PERCENT
    /\ \E t \in Tokens : balances[FeeCollector][t] > 0
    /\ \E batch \in Batches :
          /\ NoncesFresh(batch)
          /\ BalancesSuffice(batch)
          /\ Cardinality(Residual(batch, fees.fee)) = 1
          /\ LET s == simulate_intents(accounts, balances, salts, now, fees,
                                       batch)
             IN  s.res.ok /\ ~into_result(s.output).ok

RECURSIVE Held(_, _, _)
Held(bals, t, who) ==
    IF who = {} THEN 0
    ELSE LET h == CHOOSE x \in who : TRUE
         IN  bals[h][t] + Held(bals, t, who \ {h})

\* C22: for a batch that commits with fee > 0, for every token the balance
\* changes of all accounts, the fee collector included, sum to zero and the
\* fee collector's change is non-negative: what the signers lose in total
\* is exactly the fee credited to the fee collector, which is the fee taken
\* (rounded up) on every delta that gives the token away.
C22_FeeSkimsNeverCreates ==
    \A batch \in Batches, fee \in FeeRates \ {ZERO} :
        LET r == apply_token_diff_batch(accounts, balances, salts, now,
                                        WithFee(fee), batch)
        IN  r.report.committed =>
              \A t \in Tokens :
                 LET credited == r.balances[FeeCollector][t]
                                   - balances[FeeCollector][t]
                 IN  /\ Held(r.balances, t, Holders)
                          = Held(balances, t, Holders)
                     /\ credited >= 0
                     /\ Held(r.balances, t, AccountIds)
                          = Held(balances, t, AccountIds) - credited
                     /\ credited
                          = AdjustedSum(batch, Len(batch), t, fee)
                              - RawSum(batch, Len(batch), AccountIds, t)
                     /\ credited = delta_of(r.report.fees_collected, t)

\* Fees were collected from an earlier batch, and a further batch commits
\* under the fee with a fee to credit
C22_Witness ==
    /\ fees.fee # ZERO
    /\ \E t \in Tokens : balances[FeeCollector][t] > 0
    /\ \E batch \in Batches :
          LET r == apply_token_diff_batch(accounts, balances, salts, now,
                                          fees, batch)
          IN  /\ r.report.committed
              /\ r.report.fees_collected # NoDeltas
              /\ \E a \in AccountIds, t \in Tokens :
                    r.balances[a][t] > balances[a][t]

\* Intent it takes more of some token than its signer holds in bals
Overdraws(bals, it) ==
    \E t \in DOMAIN it.diff : bals[it.signer][t] + it.diff[t] < 0

\* No holder has a negative amount of any token in bals
NonNegative(bals) == \A h \in Holders, t \in Tokens : bals[h][t] >= 0

\* The state staged by the first k intents of the batch
StagedBy(batch, k) ==
    stage_batch(Shadow(accounts, balances), salts, now, fees.fee,
                SubSeq(batch, 1, k))

\* C27: during Collecting the intents are staged strictly in batch order and
\* each debit is checked against the signer's staged balance, which includes
\* the credits of the earlier intents of the batch: an intent whose negative
\* delta exceeds the staged balance fails with InsufficientBalance at that
\* point, and no staged or persisted balance is ever negative.
C27_DebitsCheckedAgainstStaged ==
    /\ NonNegative(balances)
    /\ \A batch \in Batches :
           /\ NonNegative(StagedBy(batch, Len(batch)).st.balances)
           /\ \A k \in DOMAIN batch :
                  LET before == StagedBy(batch, k - 1)
                      upto == StagedBy(batch, k)
                      whole == StagedBy(batch, Len(batch))
                  IN  (/\ before.res.ok
                       /\ ~is_nonce_used(before.st.accounts, batch[k].signer,
                                         batch[k].nonce)) =>
                          IF Overdraws(before.st.balances, batch[k])
                          THEN /\ ~upto.res.ok
                               /\ upto.res.err = "InsufficientBalance"
                               /\ upto.st = before.st
                               /\ whole = upto
                               /\ apply_token_diff_batch(accounts, balances,
                                      salts, now, fees, batch).balances
                                      = balances
                          ELSE /\ upto.res.ok
                               /\ \A t \in Tokens :
                                      upto.st.balances[batch[k].signer][t]
                                          = before.st.balances[batch[k].signer][t]
                                                + delta_of(batch[k].diff, t)

\* A signer without ft2 gives ft1 for ft2 and then, in the same batch, pays
\* the ft2 back: the debit of the second intent is covered by the credit of
\* the first and the batch commits; the same two intents in the other order
\* fail with InsufficientBalance
C27_Witness ==
    \E i \in Intents, j \in Intents :
        /\ i.signer = j.signer /\ i.nonce # j.nonce
        /\ i.diff = SwapGive /\ j.diff = SwapTake
        /\ balances[i.signer]["ft2"] = 0
        /\ StagedBy(<<i, j>>, 1).res.ok
        /\ ~Overdraws(StagedBy(<<i, j>>, 1).st.balances, j)
        /\ Overdraws(balances, j)
        /\ apply_token_diff_batch(accounts, balances, salts, now, fees,
                                  <<i, j>>).res.ok
        /\ StagedBy(<<j, i>>, 2).res.err = "InsufficientBalance"

---------------------------------------------------------------------------
(* Properties of the SaltRegistry (SpecSalts)                              *)

\* Every salt derivable from `seed` (attempts 0..=u8::MAX) is tracked by sr.
Exhausted(sr, seed) == \A n \in 0 .. U8_MAX : is_used(sr, derive(seed, n))

\* C5: immediately after SaltRegistry::new the current salt is valid,
\* previous is empty, and no salt other than current is valid.
C5_NewHasExactlyOneValidSalt ==
    last.op = "new" =>
        /\ is_valid(salts, salts.current)
        /\ DOMAIN salts.previous = {}
        /\ \A s \in Salts \ {salts.current} : ~is_valid(salts, s)

C5_Witness ==
    /\ last.op = "new"
    /\ salts.current = derive(last.seed, 0)
    /\ \E s \in Salts : s # salts.current

\* C6: a rotation that succeeds returns the salt that was current before
\* it; afterwards current is a different salt, the new current and the
\* returned salt are both valid, and an unused nonce minted under the
\* returned salt whose deadline checks pass is admitted.
C6_RotationKeepsDemotedSaltValid ==
    (last.op = "set_new" /\ last.res.ok) =>
        /\ last.res.val = last.pre.current
        /\ salts.current # last.pre.current
        /\ SaltValid(salts, salts.current)
        /\ SaltValid(salts, last.res.val)
        /\ \A a \in Signers, d \in NonceDeadlines, i \in BitPositions,
              D \in Times :
              LET n == from_versioned(V1(last.res.val, d, 0, i))
                  r == admit(accounts, salts, now, a, n, D)
              IN  (~is_nonce_used(accounts, a, n) /\ d >= D /\ ~(d < now)) =>
                      (r.res.ok /\ is_nonce_used(r.accounts, a, n))

C6_Witness ==
    /\ last.op = "set_new"
    /\ last.res.ok
    /\ last.res.val = last.pre.current
    /\ DOMAIN last.pre.previous # {}
    /\ \E a \in Signers, d \in NonceDeadlines, D \in Times :
          admit(accounts, salts, now, a,
                from_versioned(V1(last.res.val, d, 0, 0)), D).res.ok

\* C7: invalidate(s) for s a key of previous other than current succeeds,
\* makes is_valid(s) false, and leaves current and the validity of every
\* other salt unchanged.
C7_InvalidatePreviousFrame ==
    (/\ last.op = "invalidate"
     /\ last.salt \in DOMAIN last.pre.previous
     /\ last.salt # last.pre.current) =>
        /\ last.res.ok
        /\ ~is_valid(salts, last.salt)
        /\ salts.current = last.pre.current
        /\ \A t \in Salts \ {last.salt} :
              is_valid(salts, t) = is_valid(last.pre, t)

C7_Witness ==
    /\ last.op = "invalidate"
    /\ last.salt \in DOMAIN last.pre.previous
    /\ last.salt # last.pre.current
    /\ is_valid(last.pre, last.salt)
    /\ ~is_valid(salts, last.salt)
    /\ \E t \in DOMAIN salts.previous : t # last.salt /\ is_valid(salts, t)

\* C8 as stated: invalidate(current) always changes current to a salt that
\* was not tracked before and leaves the old current in previous with flag
\* false.
C8_Original ==
    (last.op = "invalidate" /\ last.salt = last.pre.current) =>
        /\ salts.current # last.pre.current
        /\ ~is_used(last.pre, salts.current)
        /\ last.pre.current \in DOMAIN salts.previous
        /\ ~salts.previous[last.pre.current]

\* C8 (amended): unless every salt derivable from the seed is already
\* tracked, invalidate(current) succeeds, changes current to a salt that
\* was not tracked before, and leaves the old current in previous with
\* flag false (hence invalid), all in that one call; when every derivable
\* salt is tracked it fails with SaltGenerationFailed and changes nothing.
C8_InvalidateCurrentRotatesAndRevokes ==
    (last.op = "invalidate" /\ last.salt = last.pre.current) =>
        IF Exhausted(last.pre, last.seed)
        THEN /\ last.res = Err("SaltGenerationFailed")
             /\ salts = last.pre
        ELSE /\ last.res.ok
             /\ salts.current # last.pre.current
             /\ ~is_used(last.pre, salts.current)
             /\ last.pre.current \in DOMAIN salts.previous
             /\ ~salts.previous[last.pre.current]
             /\ ~is_valid(salts, last.pre.current)

C8_Witness ==
    /\ last.op = "invalidate"
    /\ last.salt = last.pre.current
    /\ last.res.ok
    /\ salts.current # last.pre.current
    /\ ~is_valid(salts, last.salt)

\* C9: invalidate(s) for s neither current nor a key of previous fails with
\* InvalidSalt and leaves the registry unchanged.
C9_InvalidateUnknownFails ==
    (last.op = "invalidate" /\ ~is_used(last.pre, last.salt)) =>
        /\ ~last.res.ok
        /\ last.res.err = "InvalidSalt"
        /\ salts = last.pre

C9_Witness ==
    /\ last.op = "invalidate"
    /\ ~is_used(last.pre, last.salt)
    /\ last.res.err = "InvalidSalt"
    /\ DOMAIN salts.previous # {}

\* C10: when all u8::MAX + 1 salts derivable from the seed are tracked,
\* set_new fails with SaltGenerationFailed and leaves current and previous
\* unchanged; a successful rotation takes its salt from those attempts.
C10_ExhaustionFailsCleanly ==
    last.op = "set_new" =>
        /\ Exhausted(last.pre, last.seed) =>
              /\ ~last.res.ok
              /\ last.res.err = "SaltGenerationFailed"
              /\ salts = last.pre
        /\ last.res.ok =>
              \E n \in 0 .. U8_MAX : salts.current = derive(last.seed, n)

C10_Witness ==
    /\ last.op = "set_new"
    /\ Exhausted(last.pre, last.seed)
    /\ last.res.err = "SaltGenerationFailed"
    /\ \E s \in Salts : ~is_used(salts, s)

---------------------------------------------------------------------------
(* Properties of the salt manager of the contract (Spec)                   *)

\* C23: update_current_salt, when it returns, returns the new current salt:
\* the salt that current_salt() reports right after the call, different
\* from the current salt before the call; the salt that was current before
\* the call remains valid.  The call returns unless the rotation fails for
\* want of an untracked salt, and then it panics with nothing changed.
C23_UpdateReturnsNewCurrent ==
    \A seed \in Seeds :
        LET r == update_current_salt(salts, seed)
        IN  /\ r.res.ok =>
                  /\ r.res.val = r.reg.current
                  /\ r.res.val # salts.current
                  /\ SaltValid(r.reg, r.res.val)
                  /\ SaltValid(r.reg, salts.current)
            /\ ~r.res.ok =>
                  /\ r.reg = salts
                  /\ r.inner.err = "SaltGenerationFailed"

\* After an earlier rotation whose demoted salt is still valid, a further
\* rotation returns a salt
C23_Witness ==
    /\ \E s \in DOMAIN salts.previous : salts.previous[s]
    /\ \E seed \in Seeds :
          LET r == update_current_salt(salts, seed)
          IN  r.res.ok /\ r.res.val \notin DOMAIN salts.previous

---------------------------------------------------------------------------
(* Properties of the salt manager driven on its own (SpecManager)          *)

\* Salt s is current or a key of previous
Tracked(sr, s) == s = sr.current \/ s \in DOMAIN sr.previous

\* Salt s occurs in the list
Listed(list, s) == \E i \in 1..Len(list) : list[i] = s

---------------------------------------------------------------------------
(* Properties of the account locks (SpecLock)                              *)

\* C25: force_lock_account returns true exactly when the account was not
\* locked before the call, creating the account if it does not exist, and
\* false when it was already locked; force_unlock_account returns true
\* exactly when the account existed and was locked; after a lock
\* is_account_locked is true and after an unlock it is false, whatever calls
\* came before.
C25_ForceLockReportsChange ==
    \A a \in AccountIds :
        LET l == force_lock_account(accounts, locked, a)
            u == force_unlock_account(accounts, locked, a)
        IN  /\ l.res = ~is_account_locked(accounts, locked, a)
            /\ a \in DOMAIN l.accounts
            /\ is_account_locked(l.accounts, l.locked, a)
            /\ u.res = (a \in DOMAIN accounts
                          /\ is_account_locked(accounts, locked, a))
            /\ ~is_account_locked(u.accounts, u.locked, a)
            /\ \A b \in AccountIds \ {a} :
                   /\ is_account_locked(l.accounts, l.locked, b)
                          = is_account_locked(accounts, locked, b)
                   /\ is_account_locked(u.accounts, u.locked, b)
                          = is_account_locked(accounts, locked, b)

\* An account that the lock created is locked while another one, which has
\* committed a nonce, has been locked and unlocked again or never locked
C25_Witness ==
    /\ is_account_locked(accounts, locked, "bob")
    /\ accounts["bob"] = MaybeLegacyNonces_new
    /\ ~force_lock_account(accounts, locked, "bob").res
    /\ force_unlock_account(accounts, locked, "bob").res
    /\ "alice" \in DOMAIN accounts
    /\ ~is_account_locked(accounts, locked, "alice")
    /\ force_lock_account(accounts, locked, "alice").res
    /\ ~force_unlock_account(accounts, locked, "alice").res


\* The batches with a payload signed by account a
SignedBy(a) == {b \in LockBatches : \E i \in DOMAIN b : b[i].signer = a}

---------------------------------------------------------------------------
(* Properties of the closure quotes (SpecClosure)                          *)

\* C28: for every fee in {ZERO, ONE_BIP, ONE_PERCENT} and every amount
\* x > 0, closure_delta(token, -x, fee) lies between 0 and x and equals x at
\* fee ZERO, and a batch in which one signer gives x of a token and a
\* counterparty takes closure_delta(token, -x, fee) of it has a zero residual
\* for that token and commits.
C28_ClosureDeltaClosesGive ==
    last.op = "closure_delta" =>
        /\ fees.fee \in {ZERO, ONE_BIP, ONE_PERCENT}
        /\ last.x > 0
        /\ 0 <= last.quote /\ last.quote <= last.x
        /\ fees.fee = ZERO => last.quote = last.x
        /\ last.res.ok
        /\ last.report.committed
        /\ delta_of(last.report.unmatched_deltas, "ft1") = 0
        /\ balances["alice"]["ft1"] = last.pre["alice"]["ft1"] - last.x
        /\ balances["bob"]["ft1"] = last.pre["bob"]["ft1"] + last.quote
        /\ balances[FeeCollector]["ft1"]
               = last.pre[FeeCollector]["ft1"] + (last.x - last.quote)

\* 101 given at one percent: the fee rounds up to 2, the quote is 99 and the
\* batch has committed
C28_Witness ==
    /\ last.op = "closure_delta"
    /\ fees.fee = ONE_PERCENT
    /\ last.x = 101
    /\ last.quote = 99
    /\ last.report.committed
    /\ balances["bob"]["ft1"] = 99

\* C29: closure_supply_delta is the inverse quote of the fee adjustment: when
\* a simulated batch is rejected with residual r for a token, adding one
\* intent whose delta for that token is closure_supply_delta(token, r, fee)
\* makes the residual of that token zero, for every fee in
\* {ZERO, ONE_BIP, ONE_PERCENT}.
C29_SupplyDeltaClosesResidual ==
    last.op = "closure_supply_delta" =>
        LET before == simulate_intents(NoAccounts, last.pre, salts, now, fees,
                                       last.open)
            after == simulate_intents(NoAccounts, last.pre, salts, now, fees,
                                      last.batch)
        IN  /\ fees.fee \in {ZERO, ONE_BIP, ONE_PERCENT}
            /\ before.res.ok
            /\ ~into_result(before.output).ok
            /\ delta_of(into_result(before.output).unmatched_deltas, "ft1")
                   = last.residual
            /\ last.residual # 0
            /\ Len(last.batch) = Len(last.open) + 1
            /\ delta_of(last.batch[Len(last.batch)].diff, "ft1") = last.quote
            /\ after.res.ok
            /\ IF after.output.invariant_violated.some
               THEN delta_of(after.output.invariant_violated.val
                                 .unmatched_deltas, "ft1") = 0
               ELSE into_result(after.output).ok
            /\ last.res.ok
            /\ last.report.committed

\* A demand of 100 at one percent: the supply that closes it is 102, of
\* which the fee takes 2
C29_Witness ==
    /\ last.op = "closure_supply_delta"
    /\ fees.fee = ONE_PERCENT
    /\ last.residual = 100
    /\ last.quote = 0 - 102
    /\ last.report.committed
    /\ balances[FeeCollector]["ft1"] = 2

---------------------------------------------------------------------------
(* Properties of the rotation of the SaltRegistry (SpecSalts)              *)

\* C30: rotation sets current to the salt derived with the smallest attempt
\* index in 0..255 whose derived value is not tracked, so the new current is
\* never equal to any salt that was ever current or is a key of previous,
\* even one that has been invalidated.  (A tracked salt stays tracked, so
\* every salt that was ever current is tracked.)
C30_RotationPicksFirstUntracked ==
    /\ \A s \in Salts : Tracked(last.pre, s) => Tracked(salts, s)
    /\ salts.current # last.pre.current =>
           /\ last.op \in {"set_new", "invalidate"}
           /\ ~Tracked(last.pre, salts.current)
           /\ last.pre.current \in DOMAIN salts.previous
           /\ \E n \in 0 .. U8_MAX :
                  /\ salts.current = derive(last.seed, n)
                  /\ \A m \in 0 .. (n - 1) :
                         Tracked(last.pre, derive(last.seed, m))
    /\ (last.op = "set_new" /\ last.res.ok) =>
           salts.current # last.pre.current

\* The salt of attempt 0 was current once and has been invalidated: the
\* rotation skips it and takes the salt of attempt 1
C30_Witness ==
    /\ last.op = "set_new"
    /\ last.res.ok
    /\ derive(last.seed, 0) \in DOMAIN last.pre.previous
    /\ ~SaltValid(last.pre, derive(last.seed, 0))
    /\ salts.current = derive(last.seed, 1)
    /\ salts.current # derive(last.seed, 0)

---------------------------------------------------------------------------
(* Properties of the migration of an account (SpecMigrate)                 *)

\* Nonce n is marked in the registry the V0 account had when it was migrated
UsedInV0(n) == built.some /\ get_bit(built.val, n)

\* C31: migrating an AccountV0 to the current Account keeps replay
\* protection: every nonce used in the V0 registry reports used in the
\* migrated account and committing it fails with NonceUsed, every nonce
\* unused in V0 is unused and can be committed once, and the new registry
\* starts empty.
C31_MigrationKeepsReplayProtection ==
    reg.version = "latest" =>
        /\ built.some
        /\ \A n \in MigrateNonces :
               UsedInV0(n) =>
                   /\ MaybeLegacyNonces_is_used(reg.nonces, n)
                   /\ ~MaybeLegacyNonces_commit(reg.nonces, n).res.ok
                   /\ MaybeLegacyNonces_commit(reg.nonces, n).res.err
                          = "NonceUsed"
        /\ last.op = "migrate" =>
               /\ built.val = last.pre.nonces
               /\ reg.nonces.nonces = EmptyMap
               /\ \A n \in MigrateNonces :
                      ~UsedInV0(n) =>
                          LET once == MaybeLegacyNonces_commit(reg.nonces, n)
                          IN  /\ ~MaybeLegacyNonces_is_used(reg.nonces, n)
                              /\ once.res.ok
                              /\ MaybeLegacyNonces_is_used(once.reg, n)
                              /\ MaybeLegacyNonces_commit(once.reg, n).res.err
                                     = "NonceUsed"
        /\ (last.op = "commit" /\ ~UsedInV0(last.nonce)) =>
               /\ MaybeLegacyNonces_is_used(reg.nonces, last.nonce)
               /\ last.res.ok
                      = ~MaybeLegacyNonces_is_used(last.pre.nonces, last.nonce)

\* The account has just been migrated with one nonce used and another one
\* unused in its V0 registry
C31_Witness ==
    /\ reg.version = "latest"
    /\ last.op = "migrate"
    /\ \E n \in MigrateNonces, m \in MigrateNonces :
           /\ UsedInV0(n)
           /\ ~UsedInV0(m)
           /\ MaybeLegacyNonces_is_used(reg.nonces, n)
           /\ ~MaybeLegacyNonces_is_used(reg.nonces, m)

---------------------------------------------------------------------------
(* Properties of the simulation report (SpecInspector)                     *)

\* The calls of one kind, in the order they were made
CallsOf(op) == SelectSeq(last, LAMBDA c : c.op = op)

\* C32: the simulation report lists events in the order they occurred: logs
\* contains the events recorded through on_event in call order, followed by
\* exactly one IntentsExecuted event as the last entry, whose intents are in
\* the order on_intent_executed was called; min_deadline is the minimum of
\* all deadlines seen, and Deadline::MAX when none was seen.
C32_ReportKeepsCallOrder ==
    LET report == into_report(inspector)
        events == CallsOf("on_event")
        intents == CallsOf("on_intent_executed")
        deadlines == CallsOf("on_deadline")
        executed == [i \in DOMAIN intents |->
                         IntentEvent(intents[i].signer_id,
                                     intents[i].intent_hash, FirstNonce)]
    IN  /\ Len(report.logs) = Len(events) + 1
        /\ \A i \in DOMAIN events :
               /\ report.logs[i] = event_log(to_json(events[i].event))
               /\ report.logs[i][2].json.event # "intents_executed"
        /\ report.logs[Len(report.logs)]
               = event_log(to_json(IntentsExecuted(executed)))
        /\ report.logs[Len(report.logs)][2].json.event = "intents_executed"
        /\ report.intents_executed = executed
        /\ IF deadlines = <<>>
           THEN report.min_deadline = Deadline_MAX
           ELSE /\ \E i \in DOMAIN deadlines :
                       report.min_deadline = deadlines[i].deadline
                /\ \A i \in DOMAIN deadlines :
                       report.min_deadline <= deadlines[i].deadline

\* Two events around an executed intent, then a deadline: the report lists
\* the events in that order, then the intent, and carries the deadline
C32_Witness ==
    /\ Len(last) = 4
    /\ last[1].op = "on_event"
    /\ last[1].event.event = "public_key_added"
    /\ last[2].op = "on_intent_executed"
    /\ last[3].op = "on_event"
    /\ last[3].event.event = "token_diff"
    /\ last[4] = [op |-> "on_deadline", deadline |-> 0]
    /\ Len(into_report(inspector).logs) = 3
    /\ into_report(inspector).logs[1][2].json.event = "public_key_added"
    /\ into_report(inspector).logs[2][2].json.event = "token_diff"
    /\ into_report(inspector).min_deadline = 0


---------------------------------------------------------------------------
(* Invariants of the SaltRegistry over its history (SpecSalts)             *)

\* C33: in every reachable state of the SaltRegistry the current salt is not
\* a key of previous, and every salt that was current at some earlier point
\* is a key of previous.
C33_CurrentApartFromPrevious ==
    /\ salts.current \notin DOMAIN salts.previous
    /\ salts.current \in was_current
    /\ \A s \in was_current \ {salts.current} : s \in DOMAIN salts.previous

\* Two rotations, the second one caused by the invalidation of the current
\* salt: both earlier salts are keys of previous, one valid and one not
C33_Witness ==
    /\ Cardinality(was_current) = 3
    /\ Cardinality(DOMAIN salts.previous) = 2
    /\ last.op = "invalidate"
    /\ last.salt = last.pre.current
    /\ last.res.ok
    /\ \E s \in DOMAIN salts.previous : salts.previous[s] = TRUE
    /\ \E s \in DOMAIN salts.previous : salts.previous[s] = FALSE


\* C34: salt invalidation is permanent and tracking is monotonic: over any
\* sequence of rotations and invalidations, a salt whose previous flag has
\* been set to false never becomes valid again, no key is ever removed from
\* previous, and is_valid(current) holds in every state.
C34_InvalidationPermanent ==
    /\ SaltValid(salts, salts.current)
    /\ is_valid(salts, salts.current)
    /\ \A s \in revoked :
           /\ s \in DOMAIN salts.previous
           /\ salts.previous[s] = FALSE
           /\ ~SaltValid(salts, s)
    /\ \A s \in DOMAIN last.pre.previous :
           /\ s \in DOMAIN salts.previous
           /\ last.pre.previous[s] = FALSE => salts.previous[s] = FALSE

\* A salt was invalidated, and two rotations later it is still a key of
\* previous with flag false, next to a demoted salt that is valid
C34_Witness ==
    /\ last.op = "set_new"
    /\ last.res.ok
    /\ \E s \in revoked :
           /\ s \in DOMAIN last.pre.previous
           /\ last.pre.previous[s] = FALSE
           /\ salts.previous[s] = FALSE
           /\ s # last.pre.current
    /\ salts.previous[last.pre.current] = TRUE

---------------------------------------------------------------------------
(* Exhaustion seen from the salt manager (SpecManager)                     *)

---------------------------------------------------------------------------
(* Frame and word properties of the nonce registry (SpecNonces)            *)

\* Nonces m and n lie in the same word of the bitmap
SameWord(m, n) == prefix_of(m) = prefix_of(n)

\* C36: a successful commit(n) changes the used status of n only: for every
\* nonce m different from n, including the other nonces that share n's
\* 248-bit prefix, is_used(m) is the same before and after the call.
C36_CommitTouchesOneBit ==
    /\ (last.op = "commit" /\ last.res.ok) =>
           /\ ~MaybeLegacyNonces_is_used(last.pre, last.nonce)
           /\ MaybeLegacyNonces_is_used(reg, last.nonce)
           /\ \A m \in AllNonces \ {last.nonce} :
                  /\ MaybeLegacyNonces_is_used(reg, m)
                         = MaybeLegacyNonces_is_used(last.pre, m)
                  /\ Nonces_is_used(reg.nonces, m)
                         = Nonces_is_used(last.pre.nonces, m)
    /\ \A n \in AllNonces :
           Nonces_commit(reg.nonces, n).res.ok =>
               \A m \in AllNonces \ {n} :
                   Nonces_is_used(Nonces_commit(reg.nonces, n).reg, m)
                       = Nonces_is_used(reg.nonces, m)

\* A nonce was committed into a word that already held another nonce, which
\* is still used, while a nonce of another word is still unused
C36_Witness ==
    /\ last.op = "commit"
    /\ last.res.ok
    /\ \E m \in AllNonces \ {last.nonce} :
           /\ SameWord(m, last.nonce)
           /\ Nonces_is_used(last.pre.nonces, m)
           /\ Nonces_is_used(reg.nonces, m)
    /\ \E m \in AllNonces : ~SameWord(m, last.nonce)
                              /\ ~MaybeLegacyNonces_is_used(reg, m)


\* C37: in a MaybeLegacyNonces whose new registry starts empty, no nonce is
\* ever marked used in both the legacy registry and the new registry, after
\* any sequence of commit and cleanup_by_prefix calls.
C37_LegacyAndNewDisjoint ==
    \A n \in AllNonces :
        ~(InLegacy(reg, n) /\ get_bit(reg.nonces, n))

\* The commit of a nonce of the legacy registry has just been refused, and
\* the new registry holds another nonce
C37_Witness ==
    /\ last.op = "commit"
    /\ InLegacy(reg, last.nonce)
    /\ ~last.res.ok
    /\ ~get_bit(reg.nonces, last.nonce)
    /\ \E m \in AllNonces : get_bit(reg.nonces, m) /\ ~InLegacy(reg, m)


\* The bitmap holds a word for the prefix of nonce n
WordExists(bm, n) == \E m \in AllNonces : SameWord(m, n) /\ get_bit(bm, m)

\* C38: at the registry level cleanup_by_prefix(p) removes the whole word:
\* when the word existed it returns true and all the nonces with prefix p
\* become unused, so a following commit of any of them succeeds again; when no
\* word existed it returns false and changes nothing.  Replay protection of a
\* cleaned nonce therefore rests only on the admission checks.
C38_CleanupRemovesWholeWord ==
    last.op = "cleanup_by_prefix" =>
        /\ last.removed = WordExists(last.pre.nonces, last.nonce)
        /\ last.removed =>
               \A m \in AllNonces :
                   IF SameWord(m, last.nonce)
                   THEN /\ ~Nonces_is_used(reg.nonces, m)
                        /\ Nonces_commit(reg.nonces, m).res.ok
                        /\ Nonces_is_used(Nonces_commit(reg.nonces, m).reg, m)
                   ELSE Nonces_is_used(reg.nonces, m)
                            = Nonces_is_used(last.pre.nonces, m)
        /\ ~last.removed => reg = last.pre
        /\ reg.legacy = last.pre.legacy

\* A word with two used nonces has been removed: both are unused again and
\* can be committed, while a nonce of another word is still used
C38_Witness ==
    /\ last.op = "cleanup_by_prefix"
    /\ last.removed
    /\ \E m \in AllNonces \ {last.nonce} :
           /\ SameWord(m, last.nonce)
           /\ Nonces_is_used(last.pre.nonces, m)
           /\ Nonces_is_used(last.pre.nonces, last.nonce)
           /\ ~Nonces_is_used(reg.nonces, m)
           /\ Nonces_commit(reg.nonces, last.nonce).res.ok
    /\ \E m \in AllNonces : ~SameWord(m, last.nonce)
                              /\ Nonces_is_used(reg.nonces, m)

=============================================================================
